---------------------------- MODULE Spec2Model ----------------------------
(***************************************************************************)
(* Model of the invoice pipeline of accountant-ai (backend/ai_agent.py,    *)
(* backend/crud.py, backend/models.py, backend/schemas.py,                 *)
(* backend/dependencies.py) and of the upload path of its Telegram agent   *)
(* (telegram-agent/src/utils.py).                                          *)
(*                                                                         *)
(* Ten specifications share the variables:                                 *)
(*   Spec        POST /process for NumDocs concurrent requests, each with  *)
(*               its own database session (get_db);                        *)
(*   SpecDoc     POST /process for one request over every LLM outcome;     *)
(*   SpecGemini  extract_and_review_invoice_data_with_gemini applied to    *)
(*               one input drawn in the initial state;                     *)
(*   SpecLedger  crud.create_transaction called by concurrent sessions for *)
(*               invoices that are already stored;                         *)
(*   SpecAccounting create_transaction_schema_from_invoice applied to one  *)
(*               stored invoice drawn in the initial state;                *)
(*   SpecForecast GET /cashflow-forecast over the ledgers of up to         *)
(*               MaxEntries rows, with crud.py as it is;                   *)
(*   SpecPayables GET /cashflow-forecast over stored invoices with due     *)
(*               dates, for every outcome of its three queries;            *)
(*   SpecBudget  POST /budgets and GET /budget-report/{periodValue} over   *)
(*               the ledgers of up to MaxEntries rows;                     *)
(*   SpecTelegram validate_file and process_invoice_file of the Telegram   *)
(*               agent against the content type check of POST /process;    *)
(*   SpecTags    POST /transactions/{id}/tags called by concurrent         *)
(*               sessions on one ledger entry.                             *)
(***************************************************************************)
EXTENDS Integers, Sequences, FiniteSets, TLC

(***************************************************************************)
(* Bounds                                                                  *)
(***************************************************************************)
NumDocs == 2

Docs == 1..NumDocs

(***************************************************************************)
(* Values.  Python's None is the string NoneVal where a text is expected;  *)
(* a number-or-None field is a record [t, v].                              *)
(***************************************************************************)
NoneVal == "<None>"

Null == [t |-> "null", v |-> 0]

Num(n) == [t |-> "num", v |-> n]

\* a JSON value of the wrong type for a float field, e.g. "abc"
BadNum == [t |-> "str", v |-> 0]

\* Python truthiness of a float-or-None attribute: None and 0.0 are falsy
TruthyAmount(a) == a.t = "num" /\ a.v # 0

\* a text-or-None field whose characters matter (the vendor): the text is the
\* sequence of its characters
NoText == [t |-> "null", v |-> <<>>]

Text(s) == [t |-> "str", v |-> s]

UpperCase ==
    <<"A", "B", "C", "D", "E", "F", "G", "H", "I", "J", "K", "L", "M",
      "N", "O", "P", "Q", "R", "S", "T", "U", "V", "W", "X", "Y", "Z">>

LowerCase ==
    <<"a", "b", "c", "d", "e", "f", "g", "h", "i", "j", "k", "l", "m",
      "n", "o", "p", "q", "r", "s", "t", "u", "v", "w", "x", "y", "z">>

\* str.lower
LowerChar(c) ==
    IF \E i \in 1..Len(UpperCase) : UpperCase[i] = c
    THEN LowerCase[CHOOSE i \in 1..Len(UpperCase) : UpperCase[i] = c]
    ELSE c

lower(s) == [i \in 1..Len(s) |-> LowerChar(s[i])]

\* the operator in of two texts: kw occurs in s
Contains(s, kw) ==
    \E i \in 0..(Len(s) - Len(kw)) :
        \A j \in 1..Len(kw) : s[i + j] = kw[j]

(***************************************************************************)
(* Messages of the code                                                    *)
(***************************************************************************)
MsgNoKey == "AI Service Error: API key not configured."

MsgInvalidStructure == "AI Service Error: Invalid response structure from AI."

MsgValidation == "Data Validation Error after AI processing: <ValidationError>"

MsgParse == "AI Service Error: Could not parse AI response."

MsgProcess == "AI Service Error: Failed to process AI response (TypeError)."

MsgComm == "AI Service Error: Communication failed (<Exception>)."

MsgNoReason == "Reason not provided by AI."

MsgOcrEmpty == "OCR Error: No text could be extracted."

MsgTxError == "Transaction Creation Error: <tx_error>"

MsgUnexpected == "Unexpected Server Error: <e>"

\* a review reason the AI supplies
AiReason == "Total amount doesn't match line items sum"

(***************************************************************************)
(* The LLM outcome.  An outcome is an exception (kind "raise") or a text:  *)
(* `wrap` is the text as a sequence of tokens around the body ("J"), and   *)
(* `body` says what the body is.                                           *)
(*   jtype   "notjson" | "scalar" (null, number, boolean) | "string" |     *)
(*           "array" | "object"                                            *)
(*   hasED, hasNR  what Python's  "extractedData" in x  and                *)
(*           "needsReview" in x  give: key membership for an object,       *)
(*           element membership for an array, substring for a string       *)
(*   ed      the value under "extractedData" (of an object)                *)
(*   nr      the value under "needsReview": "true", "false", "null" or     *)
(*           "str_no" (the string "no")                                    *)
(*   rr      "reviewReason": "absent" (no key), "null", "empty" (""),      *)
(*           "reason" (a text) or "nonstr" (a number)                      *)
(***************************************************************************)
\* the three-backquote fence marker followed by json, and the marker alone
FenceJson == "<fence>json"

Fence == "<fence>"

WS == "\n"

Wraps ==
    { <<"J">>,
      <<WS, "J", WS>>,
      <<FenceJson, WS, "J", WS, Fence>>,
      <<Fence, WS, "J", WS, Fence>> }

DateVals == {"null", "2024-01-15", "15/01/2024"}

AmountVals == {Null, Num(0), Num(150), BadNum}

\* the value under lineItems: the key is absent, null, or a list of items (an
\* item is its description)
NoItems == [t |-> "absent", v |-> <<>>]

NullItems == [t |-> "null", v |-> <<>>]

Items(l) == [t |-> "list", v |-> l]

LineItemVals ==
    {NullItems, Items(<<>>), Items(<<"Widget", "Gadget">>),
     Items(<<"Gadget", "Widget">>)}

\* a confidenceScore the AI adds to extractedData, in hundredths
ConfidenceVals == {Num(50), Num(90), Num(150), BadNum}

AwsVendor == Text(<<"A", "W", "S", " ", "I", "n", "v", "o", "i", "c", "e", " ", "#", "1", "2", "3">>)

ED(total, idate, vendor, confidence, items) ==
    [etype |-> "dict", totalAmount |-> total, invoiceDate |-> idate,
     vendor |-> vendor, confidenceScore |-> confidence, lineItems |-> items]

NoED ==
    [etype |-> "null", totalAmount |-> Null, invoiceDate |-> "null",
     vendor |-> NoText, confidenceScore |-> Null, lineItems |-> NoItems]

\* the values of extractedData: every amount and date without the other keys,
\* and each value of the other keys with a total and no date
EDs ==
    {NoED}
    \cup {ED(a, d, NoText, Null, NoItems) : a \in AmountVals, d \in DateVals}
    \cup {ED(Num(150), "null", AwsVendor, Null, NoItems)}
    \cup {ED(Num(150), "null", NoText, c, NoItems) : c \in ConfidenceVals}
    \cup {ED(Num(150), "null", NoText, Null, l) : l \in LineItemVals}

NRVals == {"true", "false", "null", "str_no"}

RRVals == {"absent", "null", "empty", "reason", "nonstr"}

NoBody ==
    [jtype |-> "notjson", hasED |-> FALSE, hasNR |-> FALSE, ed |-> NoED,
     nr |-> "null", rr |-> "absent"]

Bodies ==
    {NoBody}
    \cup [jtype : {"scalar"}, hasED : {FALSE}, hasNR : {FALSE}, ed : {NoED},
          nr : {"null"}, rr : {"absent"}]
    \cup [jtype : {"string", "array"}, hasED : BOOLEAN, hasNR : BOOLEAN,
          ed : {NoED}, nr : {"null"}, rr : {"absent"}]
    \cup [jtype : {"object"}, hasED : BOOLEAN, hasNR : BOOLEAN, ed : EDs,
          nr : NRVals, rr : RRVals]

RaiseResp == [kind |-> "raise", wrap |-> <<"J">>, body |-> NoBody]

Responses == {RaiseResp} \cup [kind : {"text"}, wrap : Wraps, body : Bodies]

\* the outcome recorded for a request that made no LLM call
NoResp == [kind |-> "none", wrap |-> <<"J">>, body |-> NoBody]

(***************************************************************************)
(* response.text.strip().removeprefix(FenceJson).removesuffix(Fence)       *)
(*              .strip()                                                   *)
(***************************************************************************)
RECURSIVE LStrip(_)
LStrip(s) == IF s # <<>> /\ Head(s) = WS THEN LStrip(Tail(s)) ELSE s

RECURSIVE RStrip(_)
RStrip(s) ==
    IF s # <<>> /\ s[Len(s)] = WS THEN RStrip(SubSeq(s, 1, Len(s) - 1)) ELSE s

Strip(s) == RStrip(LStrip(s))

RemovePrefixJsonFence(s) == IF s # <<>> /\ Head(s) = FenceJson THEN Tail(s) ELSE s

RemoveSuffixFence(s) ==
    IF s # <<>> /\ s[Len(s)] = Fence THEN SubSeq(s, 1, Len(s) - 1) ELSE s

CleanText(s) == Strip(RemoveSuffixFence(RemovePrefixJsonFence(Strip(s))))

\* json.loads(cleaned_text) returns a value: the text is the body alone and the
\* body is JSON
Decodable(resp) == CleanText(resp.wrap) = <<"J">> /\ resp.body.jtype # "notjson"

(***************************************************************************)
(* schemas.InvoiceDataCreate                                               *)
(***************************************************************************)
\* vendor and confidenceScore keep their default (None) unless the mapping of
\* extractedData sets them; the schema has no field for line items
InvoiceDataCreate(text, status, msg, review, total, idate) ==
    [extractedText |-> text, processingStatus |-> status, errorMessage |-> msg,
     needsReview |-> review, totalAmount |-> total, invoiceDate |-> idate,
     vendor |-> NoText, confidenceScore |-> Null]

\* the record a failure branch returns: every other field keeps its default
ErrorData(text, msg, review) ==
    InvoiceDataCreate(text, "Error", msg, review, Null, "null")

\* Python truthiness of the decoded needsReview value
TruthyNR(nr) == nr \in {"true", "str_no"}

\* bool of pydantic: the string no is coerced to False, None is rejected
CoerceBool(nr) == nr = "true"

\* the errorMessage the mapping assigns (line 206, 211)
ReviewReason(b) ==
    IF TruthyNR(b.nr)
    THEN CASE b.rr = "absent" -> MsgNoReason
           [] b.rr = "null" -> NoneVal
           [] b.rr = "empty" -> ""
           [] b.rr = "reason" -> AiReason
           [] OTHER -> "<number>"
    ELSE NoneVal

\* InvoiceDataCreate(**extracted_data) raises ValidationError
ValidationFails(b) ==
    \/ b.ed.totalAmount.t = "str"
    \/ b.ed.confidenceScore.t = "str"
    \/ b.ed.invoiceDate = "15/01/2024"
    \/ b.nr = "null"
    \/ TruthyNR(b.nr) /\ b.rr = "nonstr"

\* a mapping that trusts the verdict of the AI and skips the validation
MapWithoutValidation(text, b) ==
    [InvoiceDataCreate(text,
                       IF TruthyNR(b.nr) THEN "Needs Review" ELSE "Processed",
                       ReviewReason(b), CoerceBool(b.nr),
                       b.ed.totalAmount, b.ed.invoiceDate)
        EXCEPT !.vendor = b.ed.vendor, !.confidenceScore = b.ed.confidenceScore]

(***************************************************************************)
(* extract_and_review_invoice_data_with_gemini, lines 204-245: the mapping *)
(* of a decoded object whose extractedData is a dict, and its validation.  *)
(***************************************************************************)
MapAndValidate(text, b) ==
    IF ValidationFails(b)
    THEN ErrorData(text, MsgValidation, TRUE)
    ELSE [InvoiceDataCreate(text,
                            IF TruthyNR(b.nr) THEN "Needs Review" ELSE "Processed",
                            ReviewReason(b), CoerceBool(b.nr),
                            b.ed.totalAmount, b.ed.invoiceDate)
             EXCEPT !.vendor = b.ed.vendor,
                    !.confidenceScore = b.ed.confidenceScore]

\* what the caller of the strategy sees when an exception leaves it
Escaped(text) == InvoiceDataCreate(text, "<exception>", NoneVal, FALSE, Null, "null")

\* a parse step without the handler of line 256: a TypeError leaves the strategy
ParseResponseNoGenericHandler(text, resp) ==
    LET b == resp.body IN
    CASE ~Decodable(resp) -> ErrorData(text, MsgParse, FALSE)
      [] Decodable(resp) /\ b.jtype = "scalar" -> Escaped(text)
      [] Decodable(resp) /\ b.jtype # "scalar" /\ (~b.hasED \/ ~b.hasNR) ->
            ErrorData(text, MsgInvalidStructure, FALSE)
      [] Decodable(resp) /\ b.jtype \in {"string", "array"} /\ b.hasED /\ b.hasNR ->
            Escaped(text)
      [] Decodable(resp) /\ b.jtype = "object" /\ b.hasED /\ b.hasNR
            /\ b.ed.etype # "dict" -> Escaped(text)
      [] OTHER -> MapAndValidate(text, b)

(***************************************************************************)
(* lines 189-262: parse the response text and check its structure.  The    *)
(* membership tests raise TypeError on a scalar; indexing a string or an   *)
(* array with a key, and assigning a key of a value that is no dict, raise *)
(* TypeError as well; line 256 turns each into an Error record.            *)
(***************************************************************************)
ParseResponse(text, resp) ==
    LET b == resp.body IN
    CASE ~Decodable(resp) -> ErrorData(text, MsgParse, FALSE)
      [] Decodable(resp) /\ b.jtype = "scalar" -> ErrorData(text, MsgProcess, FALSE)
      [] Decodable(resp) /\ b.jtype # "scalar" /\ (~b.hasED \/ ~b.hasNR) ->
            ErrorData(text, MsgInvalidStructure, FALSE)
      [] Decodable(resp) /\ b.jtype \in {"string", "array"} /\ b.hasED /\ b.hasNR ->
            ErrorData(text, MsgProcess, FALSE)
      [] Decodable(resp) /\ b.jtype = "object" /\ b.hasED /\ b.hasNR
            /\ b.ed.etype # "dict" -> ErrorData(text, MsgProcess, FALSE)
      [] OTHER -> MapAndValidate(text, b)

\* a strategy without the check of line 136: it goes on to the LLM call
ExtractWithoutKeyCheck(key, text, resp) ==
    IF resp.kind = "raise" THEN ErrorData(text, MsgComm, FALSE)
    ELSE ParseResponse(text, resp)

(***************************************************************************)
(* lines 122-270.  key: GOOGLE_API_KEY is set.  resp: what                 *)
(* model.generate_content and response.text give.                          *)
(***************************************************************************)
extract_and_review_invoice_data_with_gemini(key, text, resp) ==
    IF ~key THEN ErrorData(text, MsgNoKey, FALSE)
    ELSE IF resp.kind = "raise" THEN ErrorData(text, MsgComm, FALSE)
    ELSE ParseResponse(text, resp)

\* the LLM service is called (line 180) exactly when the key check passes
CallsLLM(key) == key

(***************************************************************************)
(* Rows of the store (models.Invoice, models.Transaction).  The id of the  *)
(* invoice a request creates is a fresh uuid: the request's own number.    *)
(* crud.create_invoice builds the row from invoice.dict(), which has no    *)
(* line items: the relationship line_items of the new row is empty.        *)
(***************************************************************************)
InvoiceRow(id, d) ==
    [id |-> id, extractedText |-> d.extractedText,
     processingStatus |-> d.processingStatus, errorMessage |-> d.errorMessage,
     needsReview |-> d.needsReview, totalAmount |-> d.totalAmount,
     invoiceDate |-> d.invoiceDate, vendor |-> d.vendor,
     confidenceScore |-> d.confidenceScore, line_items |-> <<>>]

\* schemas.ProcessResponse.from_orm(db_invoice).lineItems: the ORM object has no
\* attribute of that name (its relationship is line_items), so the field keeps
\* its default
ResponseLineItems(body) == <<>>

\* no row / db_invoice is None
NoInvoice ==
    InvoiceRow(0, InvoiceDataCreate(NoneVal, "Pending", NoneVal, FALSE, Null, "null"))

TransactionRow(id, invoiceId, amount, entryType, vendor, glAccount) ==
    [id |-> id, invoiceId |-> invoiceId, amount |-> amount, entryType |-> entryType,
     vendor |-> vendor, glAccount |-> glAccount]

\* create_transaction_schema_from_invoice returns None
NoSchema == TransactionRow(0, 0, Null, "None", <<>>, "None")

\* the keywords of lines 283-288
KwSoftware == <<"s", "o", "f", "t", "w", "a", "r", "e">>

KwSaas == <<"s", "a", "a", "s">>

KwAws == <<"a", "w", "s">>

KwGoogleCloud == <<"g", "o", "o", "g", "l", "e", " ", "c", "l", "o", "u", "d">>

KwMarketing == <<"m", "a", "r", "k", "e", "t", "i", "n", "g">>

KwAdvertising == <<"a", "d", "v", "e", "r", "t", "i", "s", "i", "n", "g">>

KwOfficeSupplies == <<"o", "f", "f", "i", "c", "e", " ", "s", "u", "p", "p", "l", "i", "e", "s">>

KwStaples == <<"s", "t", "a", "p", "l", "e", "s">>

UnknownVendor == <<"U", "n", "k", "n", "o", "w", "n", " ", "V", "e", "n", "d", "o", "r">>

\* x or "": None and the empty text give the empty text
OrEmpty(x) == IF x.t = "null" THEN <<>> ELSE x.v

\* an assignment that tries the rule of the office supplies first
OfficeSuppliesFirst(vendor) ==
    LET vendor_lower == lower(OrEmpty(vendor)) IN
    IF Contains(vendor_lower, KwOfficeSupplies) \/ Contains(vendor_lower, KwStaples)
    THEN "Office Supplies"
    ELSE IF \/ Contains(vendor_lower, KwSoftware)
            \/ Contains(vendor_lower, KwSaas)
            \/ Contains(vendor_lower, KwAws)
            \/ Contains(vendor_lower, KwGoogleCloud)
    THEN "Software & Subscriptions"
    ELSE IF Contains(vendor_lower, KwMarketing) \/ Contains(vendor_lower, KwAdvertising)
    THEN "Marketing & Advertising"
    ELSE "Uncategorized Expense"

\* lines 281-289
gl_account(vendor) ==
    LET vendor_lower == lower(OrEmpty(vendor)) IN
    IF \/ Contains(vendor_lower, KwSoftware)
       \/ Contains(vendor_lower, KwSaas)
       \/ Contains(vendor_lower, KwAws)
       \/ Contains(vendor_lower, KwGoogleCloud)
    THEN "Software & Subscriptions"
    ELSE IF Contains(vendor_lower, KwMarketing) \/ Contains(vendor_lower, KwAdvertising)
    THEN "Marketing & Advertising"
    ELSE IF Contains(vendor_lower, KwOfficeSupplies) \/ Contains(vendor_lower, KwStaples)
    THEN "Office Supplies"
    ELSE "Uncategorized Expense"

\* a derivation that books the invoice as a credit
CreditSchema(inv) ==
    IF inv.processingStatus = "Error" \/ ~TruthyAmount(inv.totalAmount)
    THEN NoSchema
    ELSE TransactionRow(inv.id, inv.id, inv.totalAmount, "Credit",
                        IF OrEmpty(inv.vendor) = <<>> THEN UnknownVendor
                        ELSE inv.vendor.v,
                        gl_account(inv.vendor))

(***************************************************************************)
(* create_transaction_schema_from_invoice (ai_agent.py 274-304)            *)
(***************************************************************************)
create_transaction_schema_from_invoice(inv) ==
    IF inv.processingStatus = "Error" \/ ~TruthyAmount(inv.totalAmount)
    THEN NoSchema
    ELSE TransactionRow(inv.id, inv.id, inv.totalAmount, "Debit",
                        IF OrEmpty(inv.vendor) = <<>> THEN UnknownVendor
                        ELSE inv.vendor.v,
                        gl_account(inv.vendor))

(***************************************************************************)
(* The state                                                               *)
(*   apiKey        GOOGLE_API_KEY is set (read once, at import)            *)
(*   pc            where each request is in process_invoice_file / get_db  *)
(*   ocrText       the text perform_ocr_easyocr returned (NoneVal: not yet) *)
(*   llmResp       the LLM outcome of the request (NoResp: no call made)   *)
(*   llmCalls      how often the request called model.generate_content     *)
(*   extracted     the InvoiceDataCreate the strategy returned             *)
(*   db_invoice    the local db_invoice (NoInvoice: None)                  *)
(*   sess          the request's session: active (its transaction was not  *)
(*                 rolled back by a failed flush), inv and tx (the rows it *)
(*                 has flushed and not yet committed)                      *)
(*   invoices      committed rows of table invoices, by id                 *)
(*   transactions  committed rows of table transactions                    *)
(*   response      what the caller got: code 0 (nothing yet), 201 with the *)
(*                 record, 400, 500                                        *)
(*   txOutcome     how the request's call of crud.create_transaction       *)
(*                 ended: "none" (not called), "ok", "flush_error",        *)
(*                 "refresh_error"                                         *)
(*   ledger        the rows of table transactions as the reporting queries *)
(*                 return them (ordered by transactionDate), with the      *)
(*                 columns the reports read                                *)
(*   budgets       the rows of table budgets, in the order the query       *)
(*                 returns them                                            *)
(*   report        the answer of the reporting endpoint that was called    *)
(*   telegram      the Telegram agent's handling of one received file      *)
(*                 (telegram-agent/src/utils.py): the file, the stage of   *)
(*                 the handling, the request it sent and its result        *)
(*   entry         the ledger entry the tag endpoint works on: its row,    *)
(*                 its tags column and the holder of its row lock          *)
(*   tagCalls      per request, the call of add_tag_to_transaction: its    *)
(*                 stage, its inputs, the tags it read and the list it     *)
(*                 wrote                                                   *)
(***************************************************************************)
VARIABLES apiKey, pc, ocrText, llmResp, llmCalls, extracted, db_invoice, sess,
          invoices, transactions, response, txOutcome, ledger, budgets, report,
          telegram, entry, tagCalls

vars ==
    <<apiKey, pc, ocrText, llmResp, llmCalls, extracted, db_invoice, sess,
      invoices, transactions, response, txOutcome, ledger, budgets, report,
      telegram, entry, tagCalls>>

\* the state the reporting endpoints read and write
reportVars == <<ledger, budgets, report>>

\* no reporting endpoint was called
NoReport == [kind |-> "none"]

\* the state of the tag endpoint
tagVars == <<entry, tagCalls>>

\* the stored ledger entry of the tag endpoint
StoredRow ==
    TransactionRow(1, 1, Num(150), "Debit", Text(<<"A", "c", "m", "e">>),
                   "Uncategorized Expense")

\* one call of add_tag_to_transaction
TagCall(stage, id, tag, current, new) ==
    [stage |-> stage, transaction_id |-> id, tag |-> tag,
     current_tags |-> current, new_tags |-> new]

NoCall == TagCall("idle", 0, "none", <<>>, <<>>)

\* no ledger entry is being tagged
NoEntry == [row |-> StoredRow, tags |-> NullItems, lock |-> 0]

\* the Telegram agent has received no file
Upload(stage, path, size, valid, content_type, result) ==
    [stage |-> stage, path |-> path, size |-> size, valid |-> valid,
     content_type |-> content_type, result |-> result]

NoUpload == Upload("none", <<>>, 0, "unchecked", "none", "none")

\* the reporting endpoints and the Telegram agent are idle, the tables empty
ReportsIdle ==
    /\ ledger = <<>>
    /\ budgets = <<>>
    /\ report = NoReport
    /\ telegram = NoUpload
    /\ entry = NoEntry
    /\ tagCalls = [r \in Docs |-> NoCall]

NoSession == [active |-> TRUE, inv |-> NoInvoice, tx |-> {}]

NoResponse == [code |-> 0, body |-> NoInvoice]

ContentTypes == {"application/pdf", "image/jpeg", "image/png", "text/plain"}

allowed_types == {"application/pdf", "image/jpeg", "image/png"}

OcrTexts == {"", "ACME Corp Invoice 42 Total Due: $150.00"}

\* the LLM outcomes drawn while NumDocs requests run concurrently
PipelineResponses ==
    {RaiseResp}
    \cup { r \in Responses :
             /\ r.kind = "text"
             /\ r.wrap = <<"J">>
             /\ \/ r.body.jtype \in {"notjson", "scalar"}
                \/ /\ r.body.jtype = "object"
                   /\ r.body.hasED
                   /\ r.body.ed.etype = "dict"
                   /\ r.body.ed.invoiceDate = "null"
                   /\ r.body.ed.vendor = NoText
                   /\ r.body.ed.confidenceScore = Null
                   /\ r.body.ed.lineItems = NoItems
                   /\ r.body.rr = "reason"
                   /\ r.body.nr \in {"true", "false"}
                   /\ (~r.body.hasNR =>
                         r.body.nr = "true" /\ r.body.ed.totalAmount = Num(150)) }

Init ==
    /\ apiKey \in BOOLEAN
    /\ pc = [r \in Docs |-> "idle"]
    /\ ocrText = [r \in Docs |-> NoneVal]
    /\ llmResp = [r \in Docs |-> NoResp]
    /\ llmCalls = [r \in Docs |-> 0]
    /\ extracted = [r \in Docs |-> ErrorData(NoneVal, NoneVal, FALSE)]
    /\ db_invoice = [r \in Docs |-> NoInvoice]
    /\ sess = [r \in Docs |-> NoSession]
    /\ invoices = [r \in Docs |-> NoInvoice]
    /\ transactions = {}
    /\ response = [r \in Docs |-> NoResponse]
    /\ txOutcome = [r \in Docs |-> "none"]
    /\ ReportsIdle

(***************************************************************************)
(* The store.  An INSERT into transactions (the flush of                   *)
(* crud.create_transaction) checks the unique index on invoiceId           *)
(* (models.py 53): against committed rows and the session's own rows it    *)
(* fails; against a row another session has not yet committed it waits.    *)
(***************************************************************************)
\* a transactions table without the unique index
NoUniqueIndex(s, invoiceId) == FALSE

DuplicateInvoiceId(s, invoiceId) ==
    \E t \in transactions \cup sess[s].tx : t.invoiceId = invoiceId

LockedInvoiceId(s, invoiceId) ==
    \E o \in Docs \ {s} : \E t \in sess[o].tx : t.invoiceId = invoiceId

\* the outcomes the INSERT of session s can have: a duplicate fails, and a wait
\* for another session's row ends either when that session ends or in an error
InsertAllowed(s, invoiceId, out) ==
    (DuplicateInvoiceId(s, invoiceId) \/ LockedInvoiceId(s, invoiceId))
        => out = "flush_error"

(***************************************************************************)
(* crud.create_invoice (crud.py 11-18): add, flush, refresh                *)
(***************************************************************************)
create_invoice(r, d) ==
    /\ sess' = [sess EXCEPT ![r].inv = InvoiceRow(r, d)]
    /\ db_invoice' = [db_invoice EXCEPT ![r] = InvoiceRow(r, d)]

(***************************************************************************)
(* crud.update_invoice_status (crud.py 25-35): an UPDATE inside the        *)
(* session's transaction                                                   *)
(***************************************************************************)
update_invoice_status(s, status, msg) ==
    IF s.inv.id = 0 THEN s
    ELSE [s EXCEPT !.inv.processingStatus = status, !.inv.errorMessage = msg]

\* an endpoint without the check of line 320: every content type goes on to OCR
ReceiveNoCheck(r, ct) ==
    /\ pc[r] = "idle"
    /\ pc' = [pc EXCEPT ![r] = "ocr"]
    /\ UNCHANGED <<tagVars, telegram, reportVars, apiKey, ocrText, llmResp, llmCalls, extracted,
                   db_invoice, sess, invoices, transactions, txOutcome, response>>

(***************************************************************************)
(* process_invoice_file, lines 318-322: the check of the content type      *)
(***************************************************************************)
Receive(r, ct) ==
    /\ pc[r] = "idle"
    /\ IF ct \notin allowed_types
       THEN /\ pc' = [pc EXCEPT ![r] = "abort"]
            /\ response' = [response EXCEPT ![r] = [code |-> 400, body |-> NoInvoice]]
       ELSE /\ pc' = [pc EXCEPT ![r] = "ocr"]
            /\ UNCHANGED response
    /\ UNCHANGED <<tagVars, telegram, reportVars, apiKey, ocrText, llmResp, llmCalls, extracted, db_invoice,
                   sess, invoices, transactions, txOutcome>>

\* an OCR step without the check of line 332: an empty text goes on to the strategy
PerformOcrNoShortCircuit(r, out) ==
    /\ pc[r] = "ocr"
    /\ IF out = "raise"
       THEN /\ pc' = [pc EXCEPT ![r] = "abort"]
            /\ response' = [response EXCEPT ![r] = [code |-> 500, body |-> NoInvoice]]
            /\ UNCHANGED ocrText
       ELSE /\ ocrText' = [ocrText EXCEPT ![r] = out]
            /\ pc' = [pc EXCEPT ![r] = "extract"]
            /\ UNCHANGED response
    /\ UNCHANGED <<tagVars, telegram, reportVars, apiKey, llmResp, llmCalls, extracted, db_invoice, sess, invoices,
                   transactions, txOutcome>>

(***************************************************************************)
(* lines 327-340 and 373-377: OCR.  perform_ocr_easyocr raises             *)
(* HTTPException on an engine failure; db_invoice is still None, so the    *)
(* handler only re-raises.  An empty text stores an Error record and       *)
(* returns it.                                                             *)
(***************************************************************************)
PerformOcr(r, out) ==
    /\ pc[r] = "ocr"
    /\ CASE out = "raise" ->
              /\ pc' = [pc EXCEPT ![r] = "abort"]
              /\ response' = [response EXCEPT ![r] = [code |-> 500, body |-> NoInvoice]]
              /\ UNCHANGED <<ocrText, db_invoice, sess>>
         [] out = "" ->
              /\ create_invoice(r, ErrorData(NoneVal, MsgOcrEmpty, FALSE))
              /\ response' = [response EXCEPT ![r] =
                    [code |-> 201,
                     body |-> InvoiceRow(r, ErrorData(NoneVal, MsgOcrEmpty, FALSE))]]
              /\ pc' = [pc EXCEPT ![r] = "commit"]
              /\ ocrText' = [ocrText EXCEPT ![r] = out]
         [] OTHER ->
              /\ ocrText' = [ocrText EXCEPT ![r] = out]
              /\ pc' = [pc EXCEPT ![r] = "extract"]
              /\ UNCHANGED <<db_invoice, sess, response>>
    /\ UNCHANGED <<tagVars, telegram, reportVars, apiKey, llmResp, llmCalls, extracted, invoices, transactions,
                   txOutcome>>

(***************************************************************************)
(* lines 343-348: the strategy runs and its record is stored               *)
(***************************************************************************)
Extract(r, resp) ==
    /\ pc[r] = "extract"
    /\ LET d == extract_and_review_invoice_data_with_gemini(apiKey, ocrText[r], resp)
       IN /\ extracted' = [extracted EXCEPT ![r] = d]
          /\ create_invoice(r, d)
    /\ llmResp' = [llmResp EXCEPT ![r] = IF CallsLLM(apiKey) THEN resp ELSE NoResp]
    /\ llmCalls' = [llmCalls EXCEPT ![r] = @ + (IF CallsLLM(apiKey) THEN 1 ELSE 0)]
    /\ pc' = [pc EXCEPT ![r] = "saved"]
    /\ UNCHANGED <<tagVars, telegram, reportVars, apiKey, ocrText, invoices, transactions, response, txOutcome>>

(***************************************************************************)
(* lines 352-366: only a Processed record with a schema goes on to         *)
(* crud.create_transaction                                                 *)
(***************************************************************************)
NeedsTransaction(inv) ==
    /\ inv.processingStatus = "Processed"
    /\ create_transaction_schema_from_invoice(inv) # NoSchema

DeriveLedger(r) ==
    /\ pc[r] = "saved"
    /\ pc' = [pc EXCEPT ![r] =
                 IF NeedsTransaction(db_invoice[r]) THEN "create_tx" ELSE "respond"]
    /\ UNCHANGED <<tagVars, telegram, reportVars, apiKey, ocrText, llmResp, llmCalls, extracted, db_invoice,
                   sess, invoices, transactions, response, txOutcome>>

(***************************************************************************)
(* crud.create_transaction (crud.py 41-48), called at line 356.            *)
(* out = "ok": the row is flushed and refreshed.                           *)
(* out = "flush_error": the INSERT fails (always so on a duplicate         *)
(*   invoiceId).  A Session whose flush fails rolls its transaction back   *)
(*   and stays inactive until rollback() is called: the invoice row        *)
(*   flushed before is gone with it.                                       *)
(* out = "refresh_error": the INSERT is done, the SELECT of line 47 fails. *)
(***************************************************************************)
FailedFlush == [active |-> FALSE, inv |-> NoInvoice, tx |-> {}]

create_transaction(r, schema, out) ==
    CASE out = "flush_error" -> FailedFlush
      [] OTHER -> [sess[r] EXCEPT !.tx = @ \cup {schema}]

CreateTransaction(r, out) ==
    /\ pc[r] = "create_tx"
    /\ LET schema == create_transaction_schema_from_invoice(db_invoice[r]) IN
       /\ InsertAllowed(r, schema.invoiceId, out)
       /\ sess' = [sess EXCEPT ![r] = create_transaction(r, schema, out)]
    /\ pc' = [pc EXCEPT ![r] = IF out = "ok" THEN "refresh_rel" ELSE "tx_error"]
    /\ txOutcome' = [txOutcome EXCEPT ![r] = out]
    /\ UNCHANGED <<tagVars, telegram, reportVars, apiKey, ocrText, llmResp, llmCalls, extracted, db_invoice,
                   invoices, transactions, response>>

(***************************************************************************)
(* line 358: db.refresh(db_invoice, attribute_names=['transaction']), a    *)
(* SELECT that may fail after the transaction row was flushed              *)
(***************************************************************************)
RefreshRelationship(r, ok) ==
    /\ pc[r] = "refresh_rel"
    /\ pc' = [pc EXCEPT ![r] = IF ok THEN "respond" ELSE "tx_error"]
    /\ UNCHANGED <<tagVars, telegram, reportVars, apiKey, ocrText, llmResp, llmCalls, extracted, db_invoice,
                   sess, invoices, transactions, response, txOutcome>>

(***************************************************************************)
(* lines 359-362: the handler around the ledger creation.                  *)
(* update_invoice_status raises on an inactive session (and may fail for   *)
(* the store's own reasons: out = "update_error"); db.refresh(db_invoice)  *)
(* may fail too (out = "refresh_error").  Either failure leaves the        *)
(* handler for the one of line 378.                                        *)
(***************************************************************************)
HandleTxError(r, out) ==
    /\ pc[r] = "tx_error"
    /\ IF ~sess[r].active \/ out = "update_error"
       THEN /\ pc' = [pc EXCEPT ![r] = "unexpected"]
            /\ UNCHANGED <<sess, db_invoice>>
       ELSE /\ sess' = [sess EXCEPT ![r] = update_invoice_status(@, "Error", MsgTxError)]
            /\ IF out = "ok"
               THEN /\ db_invoice' = [db_invoice EXCEPT ![r] = sess'[r].inv]
                    /\ pc' = [pc EXCEPT ![r] = "respond"]
               ELSE /\ pc' = [pc EXCEPT ![r] = "unexpected"]
                    /\ UNCHANGED db_invoice
    /\ UNCHANGED <<tagVars, telegram, reportVars, apiKey, ocrText, llmResp, llmCalls, extracted, invoices,
                   transactions, response, txOutcome>>

(***************************************************************************)
(* lines 378-382: db_invoice is set, so the status update is tried on the  *)
(* request's own session (an inactive session raises again), and the       *)
(* request ends with a 500.                                                *)
(***************************************************************************)
HandleUnexpected(r, ok) ==
    /\ pc[r] = "unexpected"
    /\ sess' = [sess EXCEPT ![r] =
                  IF @.active /\ ok /\ db_invoice[r].id # 0
                  THEN update_invoice_status(@, "Error", MsgUnexpected)
                  ELSE @]
    /\ response' = [response EXCEPT ![r] = [code |-> 500, body |-> NoInvoice]]
    /\ pc' = [pc EXCEPT ![r] = "abort"]
    /\ UNCHANGED <<tagVars, telegram, reportVars, apiKey, ocrText, llmResp, llmCalls, extracted, db_invoice,
                   invoices, transactions, txOutcome>>

(***************************************************************************)
(* lines 368-371: the response is built from db_invoice                    *)
(***************************************************************************)
Respond(r) ==
    /\ pc[r] = "respond"
    /\ response' = [response EXCEPT ![r] = [code |-> 201, body |-> db_invoice[r]]]
    /\ pc' = [pc EXCEPT ![r] = "commit"]
    /\ UNCHANGED <<tagVars, telegram, reportVars, apiKey, ocrText, llmResp, llmCalls, extracted, db_invoice,
                   sess, invoices, transactions, txOutcome>>

(***************************************************************************)
(* get_db (dependencies.py 10-18).  The endpoint returned: commit; if the  *)
(* commit fails, or the endpoint raised: rollback.                         *)
(***************************************************************************)
CommittedInvoices(r) ==
    IF sess[r].inv.id = 0 THEN invoices
    ELSE [invoices EXCEPT ![sess[r].inv.id] = sess[r].inv]

\* a commit that makes the invoice row durable and loses the ledger rows
CommitInvoiceOnly(r, ok) ==
    /\ pc[r] = "commit"
    /\ IF ok
       THEN /\ invoices' = CommittedInvoices(r)
            /\ pc' = [pc EXCEPT ![r] = "committed"]
            /\ UNCHANGED <<response, transactions>>
       ELSE /\ pc' = [pc EXCEPT ![r] = "commit_failed"]
            /\ response' = [response EXCEPT ![r] = [code |-> 500, body |-> NoInvoice]]
            /\ UNCHANGED <<invoices, transactions>>
    /\ sess' = [sess EXCEPT ![r] = NoSession]
    /\ UNCHANGED <<tagVars, telegram, reportVars, apiKey, ocrText, llmResp, llmCalls, extracted, db_invoice,
                   txOutcome>>

Commit(r, ok) ==
    /\ pc[r] = "commit"
    /\ IF ok
       THEN /\ invoices' = CommittedInvoices(r)
            /\ transactions' = transactions \cup sess[r].tx
            /\ pc' = [pc EXCEPT ![r] = "committed"]
            /\ UNCHANGED response
       ELSE /\ pc' = [pc EXCEPT ![r] = "commit_failed"]
            /\ response' = [response EXCEPT ![r] = [code |-> 500, body |-> NoInvoice]]
            /\ UNCHANGED <<invoices, transactions>>
    /\ sess' = [sess EXCEPT ![r] = NoSession]
    /\ UNCHANGED <<tagVars, telegram, reportVars, apiKey, ocrText, llmResp, llmCalls, extracted, db_invoice,
                   txOutcome>>

Rollback(r) ==
    /\ pc[r] = "abort"
    /\ sess' = [sess EXCEPT ![r] = NoSession]
    /\ pc' = [pc EXCEPT ![r] = "rolledback"]
    /\ UNCHANGED <<tagVars, telegram, reportVars, apiKey, ocrText, llmResp, llmCalls, extracted, db_invoice,
                   invoices, transactions, response, txOutcome>>

(***************************************************************************)
(* One step of request r, its LLM outcome drawn from RS                    *)
(***************************************************************************)
Step(r, RS) ==
    \/ \E ct \in ContentTypes : Receive(r, ct)
    \/ \E out \in {"raise"} \cup OcrTexts : PerformOcr(r, out)
    \/ \E resp \in RS : Extract(r, resp)
    \/ DeriveLedger(r)
    \/ \E out \in {"ok", "flush_error", "refresh_error"} : CreateTransaction(r, out)
    \/ \E ok \in BOOLEAN : RefreshRelationship(r, ok)
    \/ \E out \in {"ok", "update_error", "refresh_error"} : HandleTxError(r, out)
    \/ \E ok \in BOOLEAN : HandleUnexpected(r, ok)
    \/ Respond(r)
    \/ \E ok \in BOOLEAN : Commit(r, ok)
    \/ Rollback(r)

Next == \E r \in Docs : Step(r, PipelineResponses)

Spec == Init /\ [][Next]_vars

(***************************************************************************)
(* SpecDoc: one request, every LLM outcome of Responses                    *)
(***************************************************************************)
NextDoc == Step(1, Responses)

SpecDoc == Init /\ [][NextDoc]_vars

(***************************************************************************)
(* SpecGemini: the strategy as a function.  The initial state draws its    *)
(* inputs (the key, the OCR text, the LLM outcome the call would get); the *)
(* one action applies it.                                                  *)
(***************************************************************************)
InitGemini ==
    /\ apiKey \in BOOLEAN
    /\ pc = [r \in Docs |-> IF r = 1 THEN "gemini" ELSE "idle"]
    /\ ocrText \in {[r \in Docs |-> IF r = 1 THEN t ELSE NoneVal] : t \in OcrTexts}
    /\ llmResp \in {[r \in Docs |-> IF r = 1 THEN x ELSE NoResp] : x \in Responses}
    /\ llmCalls = [r \in Docs |-> 0]
    /\ extracted = [r \in Docs |-> ErrorData(NoneVal, NoneVal, FALSE)]
    /\ db_invoice = [r \in Docs |-> NoInvoice]
    /\ sess = [r \in Docs |-> NoSession]
    /\ invoices = [r \in Docs |-> NoInvoice]
    /\ transactions = {}
    /\ response = [r \in Docs |-> NoResponse]
    /\ txOutcome = [r \in Docs |-> "none"]
    /\ ReportsIdle

GeminiCall ==
    /\ pc[1] = "gemini"
    /\ extracted' = [extracted EXCEPT ![1] =
          extract_and_review_invoice_data_with_gemini(apiKey, ocrText[1], llmResp[1])]
    /\ llmCalls' = [llmCalls EXCEPT ![1] = @ + (IF CallsLLM(apiKey) THEN 1 ELSE 0)]
    /\ pc' = [pc EXCEPT ![1] = "returned"]
    /\ UNCHANGED <<tagVars, telegram, reportVars, apiKey, ocrText, llmResp, db_invoice, sess, invoices,
                   transactions, response, txOutcome>>

NextGemini == GeminiCall

SpecGemini == InitGemini /\ [][NextGemini]_vars


(***************************************************************************)
(* SpecAccounting: create_transaction_schema_from_invoice as a function.   *)
(* The initial state draws the stored invoice; the one action applies the  *)
(* function and keeps the schema it returns in the session.                *)
(***************************************************************************)
Vendors ==
    {NoText,
     Text(<<"A", "W", "S", " ", "I", "n", "v", "o", "i", "c", "e", " ", "#", "1", "2", "3">>),
     Text(<<"a", "w", "s">>),
     Text(<<"L", "a", "w", "s", "o", "n", " ", "S", "o", "f", "t", "w", "a", "r", "e">>),
     Text(<<"G", "o", "o", "g", "l", "e", " ", "C", "l", "o", "u", "d", " ", "M", "a", "r", "k", "e", "t", "i", "n", "g">>),
     Text(<<"G", "o", "o", "g", "l", "e", "c", "l", "o", "u", "d">>),
     Text(<<"S", "t", "a", "p", "l", "e", "s", " ", "A", "d", "v", "e", "r", "t", "i", "s", "i", "n", "g">>),
     Text(<<"S", "T", "A", "P", "L", "E", "S">>),
     Text(<<"O", "f", "f", "i", "c", "e", " ", "S", "u", "p", "p", "l", "i", "e", "s", " ", "I", "n", "c">>),
     Text(<<"O", "f", "f", "i", "c", "e", " ", "D", "e", "p", "o", "t">>),
     Text(<<"S", "a", "a", "S", " ", "M", "a", "r", "k", "e", "t", "i", "n", "g", " ", "S", "t", "a", "p", "l", "e", "s">>),
     Text(<<"A", "c", "m", "e", " ", "C", "o", "r", "p">>),
     Text(<<>>)}

AccountingInvoices ==
    { [InvoiceRow(1, InvoiceDataCreate("ACME Corp Invoice 42 Total Due: $150.00",
                                       st, NoneVal, st # "Processed", a, "null"))
          EXCEPT !.vendor = v] :
        st \in {"Processed", "Needs Review", "Error"},
        a \in {Null, Num(0), Num(150)}, v \in Vendors }

InitAccounting ==
    /\ apiKey = TRUE
    /\ pc = [r \in Docs |-> IF r = 1 THEN "accounting" ELSE "idle"]
    /\ ocrText = [r \in Docs |-> NoneVal]
    /\ llmResp = [r \in Docs |-> NoResp]
    /\ llmCalls = [r \in Docs |-> 0]
    /\ extracted = [r \in Docs |-> ErrorData(NoneVal, NoneVal, FALSE)]
    /\ db_invoice \in {[r \in Docs |-> IF r = 1 THEN i ELSE NoInvoice] :
                          i \in AccountingInvoices}
    /\ sess = [r \in Docs |-> NoSession]
    /\ invoices = [r \in Docs |-> NoInvoice]
    /\ transactions = {}
    /\ response = [r \in Docs |-> NoResponse]
    /\ txOutcome = [r \in Docs |-> "none"]
    /\ ReportsIdle

DeriveSchema ==
    /\ pc[1] = "accounting"
    /\ LET schema == create_transaction_schema_from_invoice(db_invoice[1])
       IN sess' = [sess EXCEPT ![1].tx = IF schema = NoSchema THEN {} ELSE {schema}]
    /\ pc' = [pc EXCEPT ![1] = "derived"]
    /\ UNCHANGED <<tagVars, telegram, reportVars, apiKey, ocrText, llmResp, llmCalls, extracted,
                   db_invoice, invoices, transactions, response, txOutcome>>

NextAccounting == DeriveSchema

SpecAccounting == InitAccounting /\ [][NextAccounting]_vars

(***************************************************************************)
(* SpecLedger: crud.create_transaction called directly, by concurrent      *)
(* sessions, for invoices that are already stored: records the pipeline    *)
(* left in Needs Review, which have no ledger entry.  A session makes one  *)
(* call for the invoice i it chose; get_db commits it, or rolls it back    *)
(* when the call raised.                                                   *)
(***************************************************************************)
ReviewedInvoice(i) ==
    InvoiceRow(i, InvoiceDataCreate("ACME Corp Invoice 42 Total Due: $150.00",
                                    "Needs Review", AiReason, TRUE, Num(150), "null"))

InitLedger ==
    /\ apiKey = TRUE
    /\ pc = [r \in Docs |-> "idle"]
    /\ ocrText = [r \in Docs |-> NoneVal]
    /\ llmResp = [r \in Docs |-> NoResp]
    /\ llmCalls = [r \in Docs |-> 0]
    /\ extracted = [r \in Docs |-> ErrorData(NoneVal, NoneVal, FALSE)]
    /\ db_invoice = [r \in Docs |-> NoInvoice]
    /\ sess = [r \in Docs |-> NoSession]
    /\ invoices = [i \in Docs |-> ReviewedInvoice(i)]
    /\ transactions = {}
    /\ response = [r \in Docs |-> NoResponse]
    /\ txOutcome = [r \in Docs |-> "none"]
    /\ ReportsIdle

LedgerAttempt(s, i, out) ==
    /\ pc[s] = "idle"
    /\ invoices[i].id # 0
    /\ InsertAllowed(s, i, out)
    /\ db_invoice' = [db_invoice EXCEPT ![s] = invoices[i]]
    /\ sess' = [sess EXCEPT ![s] =
          create_transaction(s, TransactionRow(s, i, invoices[i].totalAmount, "Debit",
                                               UnknownVendor, "Uncategorized Expense"),
                             out)]
    /\ txOutcome' = [txOutcome EXCEPT ![s] = out]
    /\ pc' = [pc EXCEPT ![s] = IF out = "ok" THEN "commit" ELSE "abort"]
    /\ UNCHANGED <<tagVars, telegram, reportVars, apiKey, ocrText, llmResp, llmCalls, extracted, invoices,
                   transactions, response>>

NextLedger ==
    \E s \in Docs :
        \/ \E i \in Docs, out \in {"ok", "flush_error", "refresh_error"} :
              LedgerAttempt(s, i, out)
        \/ \E ok \in BOOLEAN : Commit(s, ok)
        \/ Rollback(s)

SpecLedger == InitLedger /\ [][NextLedger]_vars


(***************************************************************************)
(* GET /cashflow-forecast (ai_agent.py 530-640).  Dates are day numbers,   *)
(* day 0 being today; amounts are in thousandths of the currency unit.     *)
(***************************************************************************)
today == 0

LookbackDays == 60

MinDaysAhead == 7

MaxDaysAhead == 90

\* the number of ledger rows the reporting specifications build
MaxEntries == 3

LedgerRow(vendor, d, amount, gl) ==
    [vendor |-> vendor, transactionDate |-> d, amount |-> amount, glAccount |-> gl]

Abs(x) == IF x < 0 THEN -x ELSE x

Max3(a, b, c) ==
    LET m == IF a >= b THEN a ELSE b IN IF m >= c THEN m ELSE c

\* crud.get_transactions_by_date_range: the rows of the range, ordered by date
get_transactions_by_date_range(start_date, end_date) ==
    SelectSeq(ledger, LAMBDA t : /\ t.transactionDate >= start_date
                                 /\ t.transactionDate <= end_date)

\* an insertion that puts the new element before the elements of its date
InsertBeforeTies(s, x) ==
    LET n == Cardinality({i \in 1..Len(s) : s[i].date < x.date})
    IN SubSeq(s, 1, n) \o <<x>> \o SubSeq(s, n + 1, Len(s))

\* list.sort(key=date) and sorted(key=date): stable, ascending.  The key of
\* line 631 is the ISO text of the date, whose order is the order of the dates.
InsertByDate(s, x) ==
    LET n == Cardinality({i \in 1..Len(s) : s[i].date <= x.date})
    IN SubSeq(s, 1, n) \o <<x>> \o SubSeq(s, n + 1, Len(s))

RECURSIVE SortByDate(_)
SortByDate(s) ==
    IF s = <<>> THEN <<>>
    ELSE InsertByDate(SortByDate(SubSeq(s, 1, Len(s) - 1)), s[Len(s)])

\* lines 544-547: the keys of potential_recurring, in insertion order, and the
\* list under a key
RECURSIVE potential_recurring_keys(_)
potential_recurring_keys(recent) ==
    IF recent = <<>> THEN <<>>
    ELSE LET k == potential_recurring_keys(SubSeq(recent, 1, Len(recent) - 1))
             t == recent[Len(recent)]
         IN IF t.glAccount = "Revenue" \/ \E i \in 1..Len(k) : k[i] = t.vendor
            THEN k
            ELSE Append(k, t.vendor)

potential_recurring(recent, vendor) ==
    LET mine == SelectSeq(recent, LAMBDA t : /\ t.glAccount # "Revenue"
                                            /\ t.vendor = vendor)
    IN [i \in 1..Len(mine) |->
           [date |-> mine[i].transactionDate, amount |-> mine[i].amount]]

\* a detection that compares the two oldest rows of the vendor
OldestPairRecurrence(vendor, txns, forecast_end_date) ==
    IF Len(txns) > 1
    THEN LET sorted == SortByDate(txns)
             d1 == sorted[2].date
             d2 == sorted[1].date
             delta_days == d1 - d2
             amount1 == sorted[2].amount
             amount2 == sorted[1].amount
             next_date == d1 + delta_days
         IN IF /\ 25 <= delta_days /\ delta_days <= 35
               /\ 10 * Abs(amount1 - amount2) < Max3(amount1, amount2, 1000)
               /\ next_date <= forecast_end_date
            THEN <<[date |-> next_date, vendor |-> vendor, amount |-> amount1,
                    type |-> "Projected Recurring Expense"]>>
            ELSE <<>>
    ELSE <<>>

\* a detection that labels its events the way the invoice projections do
recurrenceLabelled(vendor, txns, forecast_end_date) ==
    IF Len(txns) > 1
    THEN LET sorted == SortByDate(txns)
             n == Len(sorted)
             d1 == sorted[n].date
             d2 == sorted[n - 1].date
             delta_days == d1 - d2
             amount1 == sorted[n].amount
             amount2 == sorted[n - 1].amount
             next_date == d1 + delta_days
         IN IF /\ 25 <= delta_days /\ delta_days <= 35
               /\ 10 * Abs(amount1 - amount2) < Max3(amount1, amount2, 1000)
               /\ next_date <= forecast_end_date
            THEN <<[date |-> next_date, vendor |-> vendor, amount |-> amount1,
                    type |-> "Projected Recurring Expense (Detected)"]>>
            ELSE <<>>
    ELSE <<>>

\* lines 551-563: what one vendor adds to projected_outflows.  The quotient
\* abs(amount1 - amount2) / max(amount1, amount2, 1) < 0.10 is compared after
\* multiplying by the divisor, which is at least one unit.
recurrence(vendor, txns, forecast_end_date) ==
    IF Len(txns) > 1
    THEN LET sorted == SortByDate(txns)
             n == Len(sorted)
             d1 == sorted[n].date
             d2 == sorted[n - 1].date
             delta_days == d1 - d2
             amount1 == sorted[n].amount
             amount2 == sorted[n - 1].amount
             next_date == d1 + delta_days
         IN IF /\ 25 <= delta_days /\ delta_days <= 35
               /\ 10 * Abs(amount1 - amount2) < Max3(amount1, amount2, 1000)
               /\ next_date <= forecast_end_date
            THEN <<[date |-> next_date, vendor |-> vendor, amount |-> amount1,
                    type |-> "Projected Recurring Expense"]>>
            ELSE <<>>
    ELSE <<>>

RECURSIVE projected_outflows(_, _, _)
projected_outflows(keys, recent, forecast_end_date) ==
    IF keys = <<>> THEN <<>>
    ELSE projected_outflows(SubSeq(keys, 1, Len(keys) - 1), recent, forecast_end_date)
         \o recurrence(keys[Len(keys)],
                       potential_recurring(recent, keys[Len(keys)]),
                       forecast_end_date)

(***************************************************************************)
(* The two invoice queries of the forecast.  crud.py defines neither       *)
(* get_invoices_due_between nor get_invoices_by_status: as shipped, each   *)
(* attribute lookup raises AttributeError ("unavailable") and the handler  *)
(* leaves the empty list.  The endpoint treats them as capabilities that   *)
(* may be supplied, so a query ends in "unavailable", in "error" (any      *)
(* other exception, same handling) or in "rows"; what a supplied query     *)
(* returns follows the store contract of the specification:                *)
(* getInvoicesDueBetween(dateRange, excludeStatus) and                     *)
(* getInvoicesByStatus(status, dateRange).                                 *)
(***************************************************************************)
QueryOutcomes == {"unavailable", "error", "rows"}

get_invoices_due_between(start_date, end_date, exclude_status) ==
    SelectSeq(invoices, LAMBDA inv : /\ inv.id # 0
                                     /\ inv.processingStatus # exclude_status
                                     /\ inv.dueDate.t # "null"
                                     /\ inv.dueDate.v >= start_date
                                     /\ inv.dueDate.v <= end_date)

get_invoices_by_status(status, end_date) ==
    SelectSeq(invoices, LAMBDA inv : /\ inv.id # 0
                                     /\ inv.processingStatus = status
                                     /\ inv.dueDate.t # "null"
                                     /\ inv.dueDate.v <= end_date)

\* lines 569-582
upcoming_payments_invoices(apQuery, forecast_end_date) ==
    IF apQuery = "rows"
    THEN get_invoices_due_between(today, forecast_end_date, "Paid")
    ELSE <<>>

\* lines 603-615
outstanding_invoices(arQuery, forecast_end_date) ==
    IF arQuery = "rows"
    THEN get_invoices_by_status("Unpaid", forecast_end_date)
    ELSE <<>>

\* lines 585-597
upcoming_payments(rows) ==
    LET payable == SelectSeq(rows, LAMBDA inv : /\ inv.dueDate.t # "null"
                                               /\ inv.totalAmount.t # "null")
    IN [i \in 1..Len(payable) |->
           [date |-> payable[i].dueDate.v,
            vendor |-> IF payable[i].vendor \in {NoneVal, ""}
                       THEN "Unknown Vendor" ELSE payable[i].vendor,
            amount |-> payable[i].totalAmount.v,
            type |-> "Projected Accounts Payable (Due Invoice)",
            invoiceId |-> payable[i].id]]

\* lines 617-628
projected_inflows(rows) ==
    LET expected == SelectSeq(rows, LAMBDA inv : /\ inv.dueDate.t # "null"
                                                /\ inv.totalAmount.t # "null")
    IN [i \in 1..Len(expected) |->
           [date |-> expected[i].dueDate.v,
            vendor |-> IF expected[i].vendor \in {NoneVal, ""}
                       THEN "Unknown Customer" ELSE expected[i].vendor,
            amount |-> expected[i].totalAmount.v,
            type |-> "Projected Accounts Receivable (Outstanding Invoice)",
            invoiceId |-> expected[i].id]]

\* line 631
all_projections(forecast_end_date, apQuery, arQuery) ==
    LET recent == get_transactions_by_date_range(today - LookbackDays, today)
    IN SortByDate(
           projected_outflows(potential_recurring_keys(recent), recent,
                              forecast_end_date)
           \o upcoming_payments(upcoming_payments_invoices(apQuery, forecast_end_date))
           \o projected_inflows(outstanding_invoices(arQuery, forecast_end_date)))

(***************************************************************************)
(* The endpoint.  ledgerQuery is how the query of line 542 ended: it is    *)
(* outside every try block, so its exception leaves the endpoint (500)     *)
(* before the invoice queries are reached ("not_run").                     *)
(***************************************************************************)
get_cashflow_forecast_endpoint(daysAhead, ledgerQuery, apQuery, arQuery) ==
    /\ report = NoReport
    /\ daysAhead \in MinDaysAhead..MaxDaysAhead
    /\ report' =
          IF ledgerQuery = "ok"
          THEN [kind |-> "forecast", code |-> 200, daysAhead |-> daysAhead,
                ledgerQuery |-> ledgerQuery, apQuery |-> apQuery,
                arQuery |-> arQuery, forecastEndDate |-> today + daysAhead,
                projectedEvents |->
                    all_projections(today + daysAhead, apQuery, arQuery)]
          ELSE [kind |-> "forecast", code |-> 500, daysAhead |-> daysAhead,
                ledgerQuery |-> ledgerQuery, apQuery |-> "not_run",
                arQuery |-> "not_run", forecastEndDate |-> today + daysAhead,
                projectedEvents |-> <<>>]
    /\ UNCHANGED <<tagVars, telegram, apiKey, pc, ocrText, llmResp, llmCalls, extracted, db_invoice,
                   sess, invoices, transactions, response, txOutcome, ledger,
                   budgets>>

\* a committed row of table transactions enters the ledger at its place in
\* the order of the date-ordered queries (rows of one date in any order)
AddEntry(e) ==
    /\ report = NoReport
    /\ Len(ledger) < MaxEntries
    /\ IF ledger = <<>> THEN TRUE
       ELSE ledger[Len(ledger)].transactionDate <= e.transactionDate
    /\ ledger' = Append(ledger, e)
    /\ UNCHANGED <<tagVars, telegram, apiKey, pc, ocrText, llmResp, llmCalls, extracted, db_invoice,
                   sess, invoices, transactions, response, txOutcome, budgets,
                   report>>

ForecastDates == {-90, -60, -36, -35, -30, 0}

ForecastEntries ==
    { LedgerRow("Staples", d, a, "Office Supplies") :
          d \in ForecastDates, a \in {90000, 100000, 104000} }
    \cup { LedgerRow("Staples", d, 100000, "Revenue") : d \in ForecastDates }
    \cup { LedgerRow("Acme", d, 100000, "Uncategorized Expense") : d \in ForecastDates }

DaysAheadVals == {MinDaysAhead, 30, MaxDaysAhead}

InitForecast ==
    /\ apiKey = TRUE
    /\ pc = [r \in Docs |-> "idle"]
    /\ ocrText = [r \in Docs |-> NoneVal]
    /\ llmResp = [r \in Docs |-> NoResp]
    /\ llmCalls = [r \in Docs |-> 0]
    /\ extracted = [r \in Docs |-> ErrorData(NoneVal, NoneVal, FALSE)]
    /\ db_invoice = [r \in Docs |-> NoInvoice]
    /\ sess = [r \in Docs |-> NoSession]
    /\ invoices = [r \in Docs |-> NoInvoice]
    /\ transactions = {}
    /\ response = [r \in Docs |-> NoResponse]
    /\ txOutcome = [r \in Docs |-> "none"]
    /\ ReportsIdle

NextForecast ==
    \/ \E e \in ForecastEntries : AddEntry(e)
    \/ \E d \in DaysAheadVals, q \in {"ok", "error"} :
          get_cashflow_forecast_endpoint(d, q, "unavailable", "unavailable")

SpecForecast == InitForecast /\ [][NextForecast]_vars

(***************************************************************************)
(* SpecPayables: the forecast over a store that holds invoices with a due  *)
(* date, for every outcome of the three queries.  A row of table invoices  *)
(* with the columns the projections read.                                  *)
(***************************************************************************)
DueInvoice(i, status, dueDate, total) ==
    [id |-> i, extractedText |-> "ACME Corp Invoice 42 Total Due: $150.00",
     processingStatus |-> status, errorMessage |-> NoneVal, needsReview |-> FALSE,
     totalAmount |-> total, invoiceDate |-> "null", dueDate |-> dueDate,
     vendor |-> "ACME Corp"]

\* no row with this id
NoDueInvoice == DueInvoice(0, "Pending", Null, Null)

\* a due date or None, as a number-or-None field
DueDates == {Null, Num(-1), Num(0), Num(7), Num(8)}

DueInvoices(i) ==
    {NoDueInvoice}
    \cup { DueInvoice(i, st, d, a) :
             st \in {"Processed", "Paid", "Unpaid"}, d \in DueDates,
             a \in {Null, Num(150000)} }

\* Staples, 100 on day -48 and 104 on day -20: the next payment is due on day 8
StaplesLedger ==
    <<LedgerRow("Staples", -48, 100000, "Office Supplies"),
      LedgerRow("Staples", -20, 104000, "Office Supplies")>>

InitPayables ==
    /\ apiKey = TRUE
    /\ pc = [r \in Docs |-> "idle"]
    /\ ocrText = [r \in Docs |-> NoneVal]
    /\ llmResp = [r \in Docs |-> NoResp]
    /\ llmCalls = [r \in Docs |-> 0]
    /\ extracted = [r \in Docs |-> ErrorData(NoneVal, NoneVal, FALSE)]
    /\ db_invoice = [r \in Docs |-> NoInvoice]
    /\ sess = [r \in Docs |-> NoSession]
    /\ invoices \in {f \in [Docs -> UNION {DueInvoices(i) : i \in Docs}] :
                        \A i \in Docs : f[i] \in DueInvoices(i)}
    /\ transactions = {}
    /\ response = [r \in Docs |-> NoResponse]
    /\ txOutcome = [r \in Docs |-> "none"]
    /\ ledger = StaplesLedger
    /\ budgets = <<>>
    /\ report = NoReport
    /\ telegram = NoUpload
    /\ entry = NoEntry
    /\ tagCalls = [r \in Docs |-> NoCall]

NextPayables ==
    \E d \in {MinDaysAhead, 30}, q \in {"ok", "error"}, ap, ar \in QueryOutcomes :
        get_cashflow_forecast_endpoint(d, q, ap, ar)

SpecPayables == InitPayables /\ [][NextPayables]_vars

(***************************************************************************)
(* GET /budget-report/{periodValue} (ai_agent.py 427-465).  Day 0 is       *)
(* 2024-03-01; the texts of the period values the model uses are taken     *)
(* apart and converted by tables.                                          *)
(***************************************************************************)
\* the number of rows of table budgets the specification builds
MaxBudgets == 2

TodayYear == 2024

TodayMonth == 3

MinYear == 1

MaxYear == 9999

BudgetRow(category, periodValue, amount) ==
    [category |-> category, periodValue |-> periodValue, amount |-> amount]

\* periodValue.split(-)
split(periodValue) ==
    CASE periodValue = "2024-01" -> <<"2024", "01">>
      [] periodValue = "2024-02" -> <<"2024", "02">>
      [] periodValue = "2024-13" -> <<"2024", "13">>
      [] periodValue = "2024-Q1" -> <<"2024", "Q1">>
      [] periodValue = "9999-12" -> <<"9999", "12">>
      [] OTHER -> <<periodValue>>

\* int(text): Null stands for the ValueError of a text that is not a number
IntOf(text) ==
    CASE text = "2024" -> Num(2024)
      [] text = "9999" -> Num(9999)
      [] text = "01" -> Num(1)
      [] text = "02" -> Num(2)
      [] text = "12" -> Num(12)
      [] text = "13" -> Num(13)
      [] OTHER -> Null

IsLeap(year) ==
    /\ year % 4 = 0
    /\ (year % 100 # 0 \/ year % 400 = 0)

DaysInMonth(year, month) ==
    IF month = 2 THEN (IF IsLeap(year) THEN 29 ELSE 28)
    ELSE IF month \in {4, 6, 9, 11} THEN 30 ELSE 31

RECURSIVE DaysBeforeMonth(_, _)
DaysBeforeMonth(year, month) ==
    IF month = 1 THEN 0
    ELSE DaysBeforeMonth(year, month - 1) + DaysInMonth(year, month - 1)

\* date.toordinal
ToOrdinal(year, month, day) ==
    LET y == year - 1
    IN 365 * y + (y \div 4) - (y \div 100) + (y \div 400)
       + DaysBeforeMonth(year, month) + day

\* date(year, month, day) as a day number; Null stands for its ValueError
date(year, month, day) ==
    IF /\ year \in MinYear..MaxYear
       /\ month \in 1..12
       /\ day \in 1..DaysInMonth(year, month)
    THEN Num(ToOrdinal(year, month, day) - ToOrdinal(TodayYear, TodayMonth, 1))
    ELSE Null

\* (d + timedelta(days=32)).replace(day=1) for d the first day of the month
\* (year, month): day 33 of a month is a day of the month that follows.  Null
\* stands for the OverflowError of a day after 9999-12-31.
FirstOfNextMonth(year, month) ==
    IF month = 12 THEN date(year + 1, 1, 1) ELSE date(year, month + 1, 1)

\* lines 438-444: [kind |-> "ok", start_date, end_date], "ValueError" (400) or
\* "OverflowError", which the handler does not catch
ParsePeriod(periodValue) ==
    LET parts == split(periodValue)
    IN IF Len(parts) # 2 THEN [kind |-> "ValueError"]
       ELSE LET year == IntOf(parts[1])
                month == IntOf(parts[2])
            IN IF year = Null \/ month = Null THEN [kind |-> "ValueError"]
               ELSE LET start_date == date(year.v, month.v, 1)
                    IN IF start_date = Null THEN [kind |-> "ValueError"]
                       ELSE LET next == FirstOfNextMonth(year.v, month.v)
                            IN IF next = Null THEN [kind |-> "OverflowError"]
                               ELSE [kind |-> "ok",
                                     start_date |-> start_date.v,
                                     end_date |-> next.v - 1]

\* crud.get_budgets_by_period
get_budgets_by_period(period_value) ==
    SelectSeq(budgets, LAMBDA b : b.periodValue = period_value)

\* line 433: {b.category: b.amount for b in budgets_list}, a later row of a
\* category replaces an earlier one
relevant_budgets(budgets_list) ==
    [c \in {budgets_list[i].category : i \in 1..Len(budgets_list)} |->
        LET last == CHOOSE i \in 1..Len(budgets_list) :
                        /\ budgets_list[i].category = c
                        /\ \A j \in (i + 1)..Len(budgets_list) :
                              budgets_list[j].category # c
        IN budgets_list[last].amount]

RECURSIVE SumAmounts(_)
SumAmounts(rows) ==
    IF rows = <<>> THEN 0
    ELSE rows[1].amount + SumAmounts(Tail(rows))

\* crud.get_spending_by_category_for_period: SUM(amount) GROUP BY glAccount
\* over the rows dated from start_date to end_date
get_spending_by_category_for_period(start_date, end_date) ==
    LET rows == SelectSeq(ledger, LAMBDA t : /\ t.transactionDate >= start_date
                                             /\ t.transactionDate <= end_date)
    IN [g \in {rows[i].glAccount : i \in 1..Len(rows)} |->
           SumAmounts(SelectSeq(rows, LAMBDA t : t.glAccount = g))]

\* a report that leaves the amounts as they are
NoRounding(x) == x

\* round(x, 2) of an amount in thousandths.  A tie is settled to the even
\* hundredth; the amounts of the model produce no tie.
Round2(x) ==
    LET q == x \div 10
        r == x % 10
    IN IF r < 5 THEN 10 * q
       ELSE IF r > 5 THEN 10 * (q + 1)
       ELSE IF q % 2 = 0 THEN 10 * q ELSE 10 * (q + 1)

\* lines 447-462
BuildReport(relevant, actual_spending) ==
    [category \in (DOMAIN relevant) \cup (DOMAIN actual_spending) |->
        LET budget_amount == IF category \in DOMAIN relevant
                             THEN Num(relevant[category]) ELSE Null
            spent_amount == IF category \in DOMAIN actual_spending
                            THEN actual_spending[category] ELSE 0
            variance == IF budget_amount # Null
                        THEN budget_amount.v - spent_amount
                        ELSE -spent_amount
        IN [budget |-> budget_amount,
            actual |-> Round2(spent_amount),
            variance |-> Round2(variance)]]

EmptyReport == [category \in {} |-> Null]

\* an endpoint that takes the period apart before it looks at the budgets
ParseBeforeBudgets(periodValue) ==
    /\ report = NoReport
    /\ LET relevant == relevant_budgets(get_budgets_by_period(periodValue))
           parsed == ParsePeriod(periodValue)
       IN report' =
             IF parsed.kind = "ValueError"
             THEN [kind |-> "budget", code |-> 400, period |-> periodValue,
                   report |-> EmptyReport, message |-> FALSE]
             ELSE IF parsed.kind = "OverflowError"
             THEN [kind |-> "budget", code |-> 500, period |-> periodValue,
                   report |-> EmptyReport, message |-> FALSE]
             ELSE IF DOMAIN relevant = {}
             THEN [kind |-> "budget", code |-> 200, period |-> periodValue,
                   report |-> EmptyReport, message |-> TRUE]
             ELSE [kind |-> "budget", code |-> 200, period |-> periodValue,
                   report |-> BuildReport(relevant,
                                 get_spending_by_category_for_period(
                                     parsed.start_date, parsed.end_date)),
                   message |-> FALSE]
    /\ UNCHANGED <<tagVars, telegram, apiKey, pc, ocrText, llmResp, llmCalls, extracted, db_invoice,
                   sess, invoices, transactions, response, txOutcome, ledger,
                   budgets>>

get_budget_report_endpoint(periodValue) ==
    /\ report = NoReport
    /\ LET relevant == relevant_budgets(get_budgets_by_period(periodValue))
           parsed == ParsePeriod(periodValue)
       IN report' =
             IF DOMAIN relevant = {}
             THEN [kind |-> "budget", code |-> 200, period |-> periodValue,
                   report |-> EmptyReport, message |-> TRUE]
             ELSE IF parsed.kind = "ValueError"
             THEN [kind |-> "budget", code |-> 400, period |-> periodValue,
                   report |-> EmptyReport, message |-> FALSE]
             ELSE IF parsed.kind = "OverflowError"
             THEN [kind |-> "budget", code |-> 500, period |-> periodValue,
                   report |-> EmptyReport, message |-> FALSE]
             ELSE [kind |-> "budget", code |-> 200, period |-> periodValue,
                   report |-> BuildReport(relevant,
                                 get_spending_by_category_for_period(
                                     parsed.start_date, parsed.end_date)),
                   message |-> FALSE]
    /\ UNCHANGED <<tagVars, telegram, apiKey, pc, ocrText, llmResp, llmCalls, extracted, db_invoice,
                   sess, invoices, transactions, response, txOutcome, ledger,
                   budgets>>

\* POST /budgets: crud.create_budget adds a row
create_budget_endpoint(b) ==
    /\ report = NoReport
    /\ Len(budgets) < MaxBudgets
    /\ budgets' = Append(budgets, b)
    /\ UNCHANGED <<tagVars, telegram, apiKey, pc, ocrText, llmResp, llmCalls, extracted, db_invoice,
                   sess, invoices, transactions, response, txOutcome, ledger,
                   report>>

BudgetRows ==
    {BudgetRow("Office Supplies", "2024-02", 100000),
     BudgetRow("Office Supplies", "2024-02", 50000),
     BudgetRow("Travel", "2024-02", 50000),
     BudgetRow("Office Supplies", "2024-Q1", 100000),
     BudgetRow("Office Supplies", "2024-13", 100000),
     BudgetRow("Office Supplies", "9999-12", 100000)}

PeriodValues == {"2024-01", "2024-02", "2024-Q1", "2024-13", "9999-12"}

\* 2024-01-31, 2024-02-01, 2024-02-29 and 2024-03-01
BudgetDates == {-30, -29, -1, 0}

BudgetEntries ==
    {LedgerRow("Staples", d, 33333, g) :
        d \in BudgetDates, g \in {"Office Supplies", "Software"}}

InitBudget == InitForecast

NextBudget ==
    \/ \E b \in BudgetRows : create_budget_endpoint(b)
    \/ \E e \in BudgetEntries : AddEntry(e)
    \/ \E p \in PeriodValues : get_budget_report_endpoint(p)

SpecBudget == InitBudget /\ [][NextBudget]_vars

(***************************************************************************)
(* SpecTelegram: the Telegram agent hands one downloaded file to the       *)
(* backend (telegram-agent/src/utils.py).  validate_file checks the size   *)
(* and the extension; process_invoice_file posts the file to /process and  *)
(* reads the status of the answer.  The backend side is the check of the   *)
(* content type of Receive and the rollback of get_db.                     *)
(***************************************************************************)
MAX_FILE_SIZE == 10 * 1024 * 1024

\* the extensions of line 59
SupportedExtensions ==
    { <<".", "p", "d", "f">>, <<".", "j", "p", "g">>,
      <<".", "j", "p", "e", "g">>, <<".", "p", "n", "g">> }

\* the content type process_invoice_file gives the part, line 86
UploadContentType == "application/octet-stream"

\* the place of the last dot of a path, 0 when it has none
LastDot(p) ==
    IF \E i \in 1..Len(p) : p[i] = "."
    THEN CHOOSE i \in 1..Len(p) :
             p[i] = "." /\ \A j \in (i + 1)..Len(p) : p[j] # "."
    ELSE 0

\* os.path.splitext(p)[1]: from the last dot on; a leading dot opens no extension
splitext(p) ==
    IF LastDot(p) <= 1 THEN <<>> ELSE SubSeq(p, LastDot(p), Len(p))

\* validate_file, lines 52-62: the first component of the pair it returns
validate_file(path, size) ==
    IF size > MAX_FILE_SIZE THEN FALSE
    ELSE splitext(lower(path)) \in SupportedExtensions

\* process_invoice_file, lines 91-98: what it returns for a status
ReportedResult(status) ==
    IF status = 200 THEN "success" ELSE "error"

\* the names of the files the agent receives
FilePaths ==
    { <<"a", ".", "p", "d", "f">>, <<"A", ".", "P", "D", "F">>,
      <<"a", ".", "j", "p", "g">>, <<"a", ".", "j", "p", "e", "g">>,
      <<"a", ".", "P", "n", "g">>, <<"a", ".", "t", "x", "t">>,
      <<"a", ".", "p", "d", "f", ".", "e", "x", "e">>,
      <<"p", "d", "f">>, <<".", "p", "d", "f">> }

\* their sizes in bytes, around the limit
FileSizes == {0, 1, MAX_FILE_SIZE - 1, MAX_FILE_SIZE, MAX_FILE_SIZE + 1}

InitTelegram ==
    /\ apiKey \in BOOLEAN
    /\ pc = [r \in Docs |-> "idle"]
    /\ ocrText = [r \in Docs |-> NoneVal]
    /\ llmResp = [r \in Docs |-> NoResp]
    /\ llmCalls = [r \in Docs |-> 0]
    /\ extracted = [r \in Docs |-> ErrorData(NoneVal, NoneVal, FALSE)]
    /\ db_invoice = [r \in Docs |-> NoInvoice]
    /\ sess = [r \in Docs |-> NoSession]
    /\ invoices = [r \in Docs |-> NoInvoice]
    /\ transactions = {}
    /\ response = [r \in Docs |-> NoResponse]
    /\ txOutcome = [r \in Docs |-> "none"]
    /\ ledger = <<>>
    /\ budgets = <<>>
    /\ report = NoReport
    /\ telegram \in { Upload("downloaded", p, n, "unchecked", "none", "none") :
                        p \in FilePaths, n \in FileSizes }
    /\ entry = NoEntry
    /\ tagCalls = [r \in Docs |-> NoCall]

\* validate_file on the downloaded file
ValidateFile ==
    /\ telegram.stage = "downloaded"
    /\ telegram.valid = "unchecked"
    /\ telegram' = [telegram EXCEPT
           !.valid = IF validate_file(telegram.path, telegram.size)
                     THEN "yes" ELSE "no"]
    /\ UNCHANGED <<tagVars, reportVars, apiKey, pc, ocrText, llmResp, llmCalls, extracted,
                   db_invoice, sess, invoices, transactions, response, txOutcome>>

\* process_invoice_file, lines 78-90: the file is read and posted; reading
\* or connecting may raise, and the function then returns an error (99-102)
ProcessInvoiceFileSend(ok) ==
    /\ telegram.stage = "downloaded"
    /\ telegram' =
          IF ok
          THEN [telegram EXCEPT !.stage = "sent",
                                !.content_type = UploadContentType]
          ELSE [telegram EXCEPT !.stage = "done", !.result = "error"]
    /\ UNCHANGED <<tagVars, reportVars, apiKey, pc, ocrText, llmResp, llmCalls, extracted,
                   db_invoice, sess, invoices, transactions, response, txOutcome>>

\* the backend takes the posted request
BackendReceive ==
    /\ telegram.stage = "sent"
    /\ Receive(1, telegram.content_type)

\* the backend ends the request its check refused
BackendRollback ==
    /\ telegram.stage = "sent"
    /\ Rollback(1)

\* process_invoice_file, lines 91-98: the answer has come
ProcessInvoiceFileResult ==
    /\ telegram.stage = "sent"
    /\ pc[1] \in {"committed", "commit_failed", "rolledback"}
    /\ telegram' = [telegram EXCEPT
           !.stage = "done", !.result = ReportedResult(response[1].code)]
    /\ UNCHANGED <<tagVars, reportVars, apiKey, pc, ocrText, llmResp, llmCalls, extracted,
                   db_invoice, sess, invoices, transactions, response, txOutcome>>

NextTelegram ==
    \/ ValidateFile
    \/ \E ok \in BOOLEAN : ProcessInvoiceFileSend(ok)
    \/ BackendReceive
    \/ BackendRollback
    \/ ProcessInvoiceFileResult

SpecTelegram == InitTelegram /\ [][NextTelegram]_vars

(***************************************************************************)
(* SpecTags: calls of POST /transactions/{id}/tags on one ledger entry     *)
(* (ai_agent.py 495-507, crud.add_tag_to_transaction, crud.py 70-89).      *)
(* Each call runs in its own session: db.get reads the entry, the UPDATE   *)
(* writes the list the call built from what it read, and get_db commits.   *)
(* The UPDATE holds the lock of the row until the session ends, so a       *)
(* second writer waits for the first to commit or roll back.               *)
(***************************************************************************)
\* the tags of the form field
TagValues == {"travel", "q3"}

\* the ids of the path: the stored entry and an unknown one
TransactionIds == {1, 2}

\* current_tags, line 76: the column when it is a list, else the empty list
current_tags(tags) == IF tags.t = "list" THEN tags.v ELSE <<>>

\* the tag is in the list
TagIn(tag, l) == \E i \in 1..Len(l) : l[i] = tag

\* new_tags, line 78
new_tags(l, tag) == Append(l, tag)

InitTags ==
    /\ apiKey \in BOOLEAN
    /\ pc = [r \in Docs |-> "idle"]
    /\ ocrText = [r \in Docs |-> NoneVal]
    /\ llmResp = [r \in Docs |-> NoResp]
    /\ llmCalls = [r \in Docs |-> 0]
    /\ extracted = [r \in Docs |-> ErrorData(NoneVal, NoneVal, FALSE)]
    /\ db_invoice = [r \in Docs |-> NoInvoice]
    /\ sess = [r \in Docs |-> NoSession]
    /\ invoices = [r \in Docs |-> NoInvoice]
    /\ transactions = {}
    /\ response = [r \in Docs |-> NoResponse]
    /\ txOutcome = [r \in Docs |-> "none"]
    /\ ledger = <<>>
    /\ budgets = <<>>
    /\ report = NoReport
    /\ telegram = NoUpload
    /\ entry \in { [row |-> StoredRow, tags |-> t, lock |-> 0] :
                     t \in {NullItems, Items(<<>>), Items(<<"travel">>)} }
    /\ tagCalls = [r \in Docs |-> NoCall]

\* db.get, lines 72-76: the call reads the committed entry; an unknown id
\* returns None and the endpoint answers 404
ReadEntry(r, id, tag) ==
    /\ tagCalls[r].stage = "idle"
    /\ tagCalls' = [tagCalls EXCEPT ![r] =
          IF id # entry.row.id
          THEN TagCall("notfound", id, tag, <<>>, <<>>)
          ELSE TagCall("read", id, tag, current_tags(entry.tags), <<>>)]
    /\ UNCHANGED <<entry, telegram, reportVars, apiKey, pc, ocrText, llmResp,
                   llmCalls, extracted, db_invoice, sess, invoices,
                   transactions, response, txOutcome>>

\* lines 77-89: the UPDATE with the extended list, or the entry unmodified
WriteTags(r) ==
    /\ tagCalls[r].stage = "read"
    /\ IF TagIn(tagCalls[r].tag, tagCalls[r].current_tags)
       THEN /\ tagCalls' = [tagCalls EXCEPT ![r].stage = "unmodified"]
            /\ UNCHANGED entry
       ELSE /\ entry.lock = 0
            /\ entry' = [entry EXCEPT !.lock = r]
            /\ tagCalls' = [tagCalls EXCEPT
                   ![r].stage = "written",
                   ![r].new_tags =
                       new_tags(tagCalls[r].current_tags, tagCalls[r].tag)]
    /\ UNCHANGED <<telegram, reportVars, apiKey, pc, ocrText, llmResp,
                   llmCalls, extracted, db_invoice, sess, invoices,
                   transactions, response, txOutcome>>

\* get_db (dependencies.py 10-18): the commit makes the written list the
\* entry's; a failed commit rolls the session back
CommitTags(r, ok) ==
    /\ tagCalls[r].stage \in {"written", "unmodified"}
    /\ tagCalls' = [tagCalls EXCEPT
           ![r].stage = IF ok THEN "committed" ELSE "rolledback"]
    /\ entry' =
          IF tagCalls[r].stage = "unmodified" THEN entry
          ELSE IF ok THEN [entry EXCEPT !.tags = Items(tagCalls[r].new_tags),
                                        !.lock = 0]
          ELSE [entry EXCEPT !.lock = 0]
    /\ UNCHANGED <<telegram, reportVars, apiKey, pc, ocrText, llmResp,
                   llmCalls, extracted, db_invoice, sess, invoices,
                   transactions, response, txOutcome>>

NextTags ==
    \E r \in Docs :
        \/ \E id \in TransactionIds, tag \in TagValues : ReadEntry(r, id, tag)
        \/ WriteTags(r)
        \/ \E ok \in BOOLEAN : CommitTags(r, ok)

SpecTags == InitTags /\ [][NextTags]_vars


(***************************************************************************)
(* Properties                                                              *)
(***************************************************************************)
HasLedgerEntry(i) == \E t \in transactions : t.invoiceId = i

Ended(r) == pc[r] \in {"committed", "commit_failed", "rolledback"}

\* the response reached line 224: it decodes to an object with both keys whose
\* extractedData is a dict
ReachedValidation(resp) ==
    /\ resp.kind = "text"
    /\ Decodable(resp)
    /\ resp.body.jtype = "object"
    /\ resp.body.hasED /\ resp.body.hasNR
    /\ resp.body.ed.etype = "dict"

StructurallyValid(resp) == ReachedValidation(resp) /\ ~ValidationFails(resp.body)

\* C1 (as claimed): after a completed run of POST /process a ledger entry exists
\* for the stored record if and only if its processingStatus is Processed and
\* its totalAmount is not null.
C1_LedgerIffProcessedWithTotal ==
    \A r \in Docs :
        pc[r] = "committed" =>
            (HasLedgerEntry(r) <=>
                (/\ invoices[r].processingStatus = "Processed"
                 /\ invoices[r].totalAmount.t # "null"))

\* C2 (as claimed): in every committed state a record whose processingStatus is
\* Error has no ledger entry.
C2_ErrorHasNoLedgerEntry ==
    \A r \in Docs :
        (invoices[r].id # 0 /\ invoices[r].processingStatus = "Error")
            => ~HasLedgerEntry(r)

\* C3: at most one ledger entry references an invoice, in the table and among
\* the rows sessions hold uncommitted; of the sessions that tried to create an
\* entry for the same invoice at most one commits, and a session whose INSERT
\* met an entry of that invoice (committed, or flushed by another session) ended
\* with the flush error and holds no row.
C3_OneLedgerEntryPerInvoice ==
    /\ \A t1, t2 \in transactions : t1.invoiceId = t2.invoiceId => t1 = t2
    /\ \A s \in Docs : \A t \in sess[s].tx :
          /\ ~HasLedgerEntry(t.invoiceId)
          /\ ~LockedInvoiceId(s, t.invoiceId)
    /\ \A s1, s2 \in Docs :
          (/\ s1 # s2
           /\ db_invoice[s1].id # 0
           /\ db_invoice[s1].id = db_invoice[s2].id
           /\ pc[s1] = "committed")
              => /\ pc[s2] # "committed"
                 /\ (\A t \in sess[s2].tx : t.invoiceId # db_invoice[s1].id)
    /\ \A s \in Docs : txOutcome[s] = "flush_error" => sess[s].tx = {}

C3_Witness ==
    \E s1, s2 \in Docs :
        /\ s1 # s2
        /\ db_invoice[s1].id # 0
        /\ db_invoice[s1].id = db_invoice[s2].id
        /\ pc[s1] = "committed"
        /\ HasLedgerEntry(db_invoice[s1].id)
        /\ txOutcome[s2] = "flush_error"
        /\ pc[s2] = "rolledback"

\* C4 (as claimed): when the INSERT of the ledger entry fails for a Processed
\* record, the run ends committed, with the record demoted to Error, its
\* errorMessage the persistence failure message, and that record returned.
C4_PersistFailureDemotesRecord ==
    \A r \in Docs :
        (txOutcome[r] = "flush_error" /\ Ended(r)) =>
            /\ pc[r] = "committed"
            /\ invoices[r].id = r
            /\ invoices[r].processingStatus = "Error"
            /\ invoices[r].errorMessage = MsgTxError
            /\ response[r] = [code |-> 201, body |-> invoices[r]]

\* C5: the committed store never holds a part of a run: a ledger entry is
\* committed only with its record, a record is committed only by a run that
\* ended in its commit, it carries the final status (the record the run
\* returned), and the ledger entry that run flushed is committed with it.
C5_LedgerAndStatusAtomic ==
    \A r \in Docs :
        /\ HasLedgerEntry(r) => invoices[r].id = r
        /\ pc[r] # "committed" => invoices[r].id = 0
        /\ invoices[r].id # 0 =>
              /\ response[r] = [code |-> 201, body |-> invoices[r]]
              /\ (HasLedgerEntry(r) <=> txOutcome[r] \in {"ok", "refresh_error"})

C5_Witness ==
    \E r, o \in Docs :
        /\ r # o
        /\ pc[r] = "committed"
        /\ invoices[r].processingStatus = "Processed"
        /\ HasLedgerEntry(r)
        /\ pc[o] \in {"saved", "create_tx", "refresh_rel", "respond", "commit"}

\* C6 (as claimed): a run that failed after its record was created leaves a
\* committed record with processingStatus Error and a non-empty errorMessage.
C6_FailureLeavesErrorRecord ==
    \A r \in Docs :
        (pc[r] = "rolledback" /\ db_invoice[r].id # 0) =>
            /\ invoices[r].id = r
            /\ invoices[r].processingStatus = "Error"
            /\ invoices[r].errorMessage \notin {NoneVal, ""}

\* C7: when the validation of the mapped fields fails, whatever needsReview the
\* AI reported, the strategy returns status Error, the stored record is Error,
\* never Processed, and no ledger entry is created for it.
C7_ValidationFailureIsError ==
    \A r \in Docs :
        (ReachedValidation(llmResp[r]) /\ ValidationFails(llmResp[r].body)) =>
            /\ extracted[r].processingStatus = "Error"
            /\ db_invoice[r].processingStatus = "Error"
            /\ invoices[r].processingStatus # "Processed"
            /\ txOutcome[r] = "none"
            /\ sess[r].tx = {}
            /\ ~HasLedgerEntry(r)

C7_Witness ==
    \E r \in Docs :
        /\ ReachedValidation(llmResp[r])
        /\ ValidationFails(llmResp[r].body)
        /\ llmResp[r].body.nr = "false"
        /\ llmResp[r].body.ed.totalAmount = Num(150)
        /\ pc[r] = "committed"
        /\ invoices[r].processingStatus = "Error"

\* C8 (as claimed): for a structurally valid response, needsReview true gives
\* Needs Review with errorMessage the supplied reason, or a non-empty placeholder
\* when the reviewReason key is absent or null; needsReview false gives Processed
\* with no errorMessage.
C8_ClassificationByNeedsReview ==
    (pc[1] = "returned" /\ apiKey /\ StructurallyValid(llmResp[1])) =>
        LET b == llmResp[1].body
            d == extracted[1]
        IN /\ b.nr = "true" =>
                 /\ d.processingStatus = "Needs Review"
                 /\ b.rr \in {"absent", "null"} => d.errorMessage = MsgNoReason
                 /\ b.rr = "reason" => d.errorMessage = AiReason
                 /\ b.rr = "empty" => d.errorMessage = ""
           /\ b.nr = "false" =>
                 /\ d.processingStatus = "Processed"
                 /\ d.errorMessage = NoneVal

\* C9: when the OCR text is empty the request never calls the LLM and never
\* creates a ledger entry, and the run that commits stores and returns a record
\* with status Error and the OCR message.
C9_EmptyTextShortCircuits ==
    \A r \in Docs :
        ocrText[r] = "" =>
            /\ llmCalls[r] = 0
            /\ llmResp[r] = NoResp
            /\ txOutcome[r] = "none"
            /\ sess[r].tx = {}
            /\ ~HasLedgerEntry(r)
            /\ pc[r] \in {"commit", "committed", "commit_failed"}
            /\ pc[r] = "committed" =>
                  /\ invoices[r].id = r
                  /\ invoices[r].processingStatus = "Error"
                  /\ invoices[r].errorMessage = MsgOcrEmpty
                  /\ response[r] = [code |-> 201, body |-> invoices[r]]

C9_Witness ==
    \E r \in Docs :
        /\ ocrText[r] = ""
        /\ pc[r] = "committed"
        /\ invoices[r].processingStatus = "Error"
        /\ apiKey

\* C10 (as claimed): a decoded response that lacks extractedData or needsReview
\* gives status Error with the invalid-structure message; a response that is
\* not decodable gives status Error with the could-not-parse message.
C10_MissingKeyIsInvalidStructure ==
    (pc[1] = "returned" /\ apiKey /\ llmResp[1].kind = "text") =>
        LET b == llmResp[1].body
            d == extracted[1]
        IN /\ (Decodable(llmResp[1]) /\ (~b.hasED \/ ~b.hasNR)) =>
                 /\ d.processingStatus = "Error"
                 /\ d.errorMessage = MsgInvalidStructure
           /\ ~Decodable(llmResp[1]) =>
                 /\ d.processingStatus = "Error"
                 /\ d.errorMessage = MsgParse

\* C11: when GOOGLE_API_KEY is not set the strategy returns, for every OCR text
\* and whatever the LLM would have answered, a record with status Error and
\* the API-key message, and model.generate_content is not called.
C11_MissingKeyIsErrorWithoutCall ==
    (pc[1] = "returned" /\ ~apiKey) =>
        /\ extracted[1] = ErrorData(ocrText[1], MsgNoKey, FALSE)
        /\ llmCalls[1] = 0

C11_Witness ==
    /\ pc[1] = "returned"
    /\ ~apiKey
    /\ StructurallyValid(llmResp[1])
    /\ llmResp[1].body.nr = "false"
    /\ extracted[1].processingStatus = "Error"

\* C12: a request whose content type is not PDF, JPEG or PNG is answered with
\* a 400 in its first step, before any OCR call, LLM call or write to its
\* session, and the step leaves the store as it was; afterwards the request
\* never calls OCR or the LLM and never writes to the store.
C12_BadMediaTypeRejectedFirst ==
    [][\A r \in Docs :
          /\ \A ct \in ContentTypes \ allowed_types :
                Receive(r, ct) =>
                   /\ response'[r] = [code |-> 400, body |-> NoInvoice]
                   /\ pc'[r] = "abort"
                   /\ ocrText'[r] = NoneVal
                   /\ llmCalls'[r] = 0
                   /\ sess'[r] = NoSession
                   /\ invoices' = invoices
                   /\ transactions' = transactions
          /\ response[r].code = 400 =>
                /\ response'[r] = response[r]
                /\ pc'[r] \in {"abort", "rolledback"}
                /\ ocrText'[r] = NoneVal
                /\ llmCalls'[r] = 0
                /\ sess'[r] = NoSession
                /\ db_invoice'[r] = NoInvoice
                /\ invoices'[r] = NoInvoice
                /\ ~\E t \in transactions' : t.invoiceId = r]_vars

C12_Witness ==
    \E r, o \in Docs :
        /\ r # o
        /\ response[r].code = 400
        /\ pc[r] = "rolledback"
        /\ pc[o] = "committed"
        /\ HasLedgerEntry(o)
        /\ invoices[r] = NoInvoice

\* C13 (as claimed): after an OCR engine failure the request has ended and a
\* committed record of the document with processingStatus Error exists.
C13_OcrFailureMarksError ==
    \A r \in Docs :
        (pc[r] = "rolledback" /\ response[r].code = 500 /\ ocrText[r] = NoneVal) =>
            /\ invoices[r].id = r
            /\ invoices[r].processingStatus = "Error"

ProcessedStatuses == {"Processed", "Needs Review", "Error"}

\* C14: for every OCR text and every LLM outcome (a text or an exception) the
\* strategy returns a record whose processingStatus is Processed, Needs Review
\* or Error, and every record the request flushes, returns or commits has one
\* of these three statuses.
C14_StrategyTotalThreeStatuses ==
    \A r \in Docs :
        /\ pc[r] \notin {"idle", "ocr", "extract"} /\ ocrText[r] \notin {NoneVal, ""}
              => extracted[r].processingStatus \in ProcessedStatuses
        /\ sess[r].inv.id # 0 => sess[r].inv.processingStatus \in ProcessedStatuses
        /\ db_invoice[r].id # 0 => db_invoice[r].processingStatus \in ProcessedStatuses
        /\ invoices[r].id # 0 => invoices[r].processingStatus \in ProcessedStatuses
        /\ response[r].code = 201 =>
              response[r].body.processingStatus \in ProcessedStatuses

C14_Witness ==
    \E r \in Docs :
        /\ llmResp[r].kind = "text"
        /\ Decodable(llmResp[r])
        /\ llmResp[r].body.jtype = "scalar"
        /\ pc[r] = "committed"
        /\ invoices[r].processingStatus = "Error"
        /\ invoices[r].errorMessage = MsgProcess

RecurringType == "Projected Recurring Expense"

\* the positions of the events of a type (and of a vendor) in the answer
EventsOfType(type) ==
    {i \in 1..Len(report.projectedEvents) : report.projectedEvents[i].type = type}

RecurringEventsOf(v) ==
    {i \in EventsOfType(RecurringType) : report.projectedEvents[i].vendor = v}

\* the positions of the non-revenue rows of vendor v in the lookback
ExpenseRowsOf(v) ==
    {i \in 1..Len(ledger) :
        /\ ledger[i].vendor = v
        /\ ledger[i].glAccount # "Revenue"
        /\ ledger[i].transactionDate >= today - LookbackDays
        /\ ledger[i].transactionDate <= today}

LastOf(S) == CHOOSE i \in S : \A j \in S : j <= i

\* C15: in a successful forecast, for every vendor with at least two
\* non-revenue rows in the 60-day lookback, with (D1, A1) and (D2, A2) its two
\* most recent rows (by date, rows of one date in the order of the query):
\* exactly one recurring event of the vendor, at D2 + (D2 - D1) with amount A2,
\* if 25 <= D2 - D1 <= 35 and |A2 - A1| / max(A1, A2, 1) < 0.10 and that date
\* is not after the forecast end, and none otherwise; older rows and vendors
\* with fewer rows give none.
C15_RecurrenceRule ==
    (report.kind = "forecast" /\ report.code = 200) =>
        \A v \in {ledger[i].vendor : i \in 1..Len(ledger)} :
            LET E == ExpenseRowsOf(v)
                ev == RecurringEventsOf(v)
            IN IF Cardinality(E) >= 2
               THEN LET i2 == LastOf(E)
                        i1 == LastOf(E \ {i2})
                        D1 == ledger[i1].transactionDate
                        D2 == ledger[i2].transactionDate
                        A1 == ledger[i1].amount
                        A2 == ledger[i2].amount
                    IN IF /\ 25 <= D2 - D1 /\ D2 - D1 <= 35
                          /\ 10 * Abs(A2 - A1) < Max3(A1, A2, 1000)
                          /\ D2 + (D2 - D1) <= report.forecastEndDate
                       THEN /\ Cardinality(ev) = 1
                            /\ \A i \in ev :
                                  /\ report.projectedEvents[i].date = D2 + (D2 - D1)
                                  /\ report.projectedEvents[i].amount = A2
                       ELSE ev = {}
               ELSE ev = {}

C15_Witness ==
    /\ report.kind = "forecast"
    /\ report.code = 200
    /\ Cardinality(ExpenseRowsOf("Staples")) = 3
    /\ ledger[1].transactionDate = -60
    /\ ledger[1].amount = 90000
    /\ \E i \in RecurringEventsOf("Staples") :
          /\ report.projectedEvents[i].date = 30
          /\ report.projectedEvents[i].amount = 104000

\* C16 (as claimed): every recurring event of a successful forecast has a date
\* from today to the forecast end.
C16_RecurringEventInWindow ==
    (report.kind = "forecast" /\ report.code = 200) =>
        \A i \in EventsOfType(RecurringType) :
            /\ today <= report.projectedEvents[i].date
            /\ report.projectedEvents[i].date <= report.forecastEndDate

PayableType == "Projected Accounts Payable (Due Invoice)"

ReceivableType == "Projected Accounts Receivable (Outstanding Invoice)"

\* the invoices an available accounts-payable source holds for the forecast:
\* not Paid, due from today to the forecast end
DueInWindow(i) ==
    /\ invoices[i].id # 0
    /\ invoices[i].processingStatus # "Paid"
    /\ invoices[i].dueDate.t # "null"
    /\ today <= invoices[i].dueDate.v
    /\ invoices[i].dueDate.v <= report.forecastEndDate

\* C17 (as claimed): whichever of the three source queries fails or is
\* unavailable, the forecast returns successfully, with no event of that
\* source and with the events of the other sources.
C17_SourceFailureNeverAborts ==
    report.kind = "forecast" =>
        /\ report.code = 200
        /\ report.ledgerQuery # "ok" => EventsOfType(RecurringType) = {}
        /\ report.apQuery # "rows" => EventsOfType(PayableType) = {}
        /\ report.arQuery # "rows" => EventsOfType(ReceivableType) = {}
        /\ report.apQuery = "rows" =>
              \A i \in Docs :
                  (DueInWindow(i) /\ invoices[i].totalAmount.t # "null") =>
                      \E k \in EventsOfType(PayableType) :
                          report.projectedEvents[k].invoiceId = i

\* C18 (as claimed): in a successful forecast every stored invoice that is not
\* Paid, has a total amount and a due date from today to the forecast end
\* contributes exactly one accounts-payable event, at its due date; an invoice
\* that lacks the due date or the amount contributes none.
C18_PayableContributesOneEvent ==
    (report.kind = "forecast" /\ report.code = 200) =>
        \A i \in Docs :
            invoices[i].id # 0 =>
                LET ev == {k \in EventsOfType(PayableType) :
                              report.projectedEvents[k].invoiceId = i}
                IN IF DueInWindow(i) /\ invoices[i].totalAmount.t # "null"
                   THEN /\ Cardinality(ev) = 1
                        /\ \A k \in ev :
                              report.projectedEvents[k].date = invoices[i].dueDate.v
                   ELSE ev = {}

ForecastEventTypes ==
    {"Projected Recurring Expense", "Projected Accounts Payable",
     "Projected Accounts Receivable"}

IsMonthPeriod == ParsePeriod(report.period).kind = "ok"

BudgetedCategories ==
    {budgets[i].category : i \in {j \in 1..Len(budgets) :
                                     budgets[j].periodValue = report.period}}

\* the budget of a category in the period of the report: its last stored row
BudgetOf(c) ==
    LET rows == {j \in 1..Len(budgets) : /\ budgets[j].periodValue = report.period
                                         /\ budgets[j].category = c}
    IN budgets[LastOf(rows)].amount

\* the ledger rows of a category dated from the first to the last day of the
\* period of the report
SpendRows(c) ==
    {i \in 1..Len(ledger) :
        /\ ledger[i].glAccount = c
        /\ ledger[i].transactionDate >= ParsePeriod(report.period).start_date
        /\ ledger[i].transactionDate <= ParsePeriod(report.period).end_date}

SpentCategories ==
    {ledger[i].glAccount : i \in {j \in 1..Len(ledger) :
                                     SpendRows(ledger[j].glAccount) # {}}}

RECURSIVE SumOver(_)
SumOver(S) ==
    IF S = {} THEN 0
    ELSE LET i == CHOOSE j \in S : TRUE
         IN ledger[i].amount + SumOver(S \ {i})

SpendOf(c) == SumOver(SpendRows(c))

\* v is x rounded to 2 decimals (amounts are in thousandths)
IsRounded2(v, x) ==
    /\ v % 10 = 0
    /\ 2 * Abs(v - x) <= 10

C21_NoBudgetsGiveEmptyReportWithNote ==
    (report.kind = "budget" /\ BudgetedCategories = {}) =>
        /\ report.code = 200
        /\ report.message
        /\ report.report = EmptyReport

C21_Witness ==
    /\ report.kind = "budget"
    /\ BudgetedCategories = {}
    /\ ParsePeriod(report.period).kind = "ValueError"
    /\ ledger # <<>>
    /\ budgets # <<>>
    /\ report.code = 200
    /\ report.message

\* the rules a vendor text matches, by their place in the order Software &
\* Subscriptions (1), Marketing & Advertising (2), Office Supplies (3)
RulesMatched(v) ==
    {k \in 1..3 :
        \E kw \in (CASE k = 1 -> {KwSoftware, KwSaas, KwAws, KwGoogleCloud}
                     [] k = 2 -> {KwMarketing, KwAdvertising}
                     [] OTHER -> {KwOfficeSupplies, KwStaples}) :
            Contains(lower(v), kw)}

RuleCategory(k) ==
    CASE k = 1 -> "Software & Subscriptions"
      [] k = 2 -> "Marketing & Advertising"
      [] OTHER -> "Office Supplies"

\* C22: the schema derived from an invoice carries the category of the first
\* rule, in the order Software & Subscriptions, Marketing & Advertising, Office
\* Supplies, that has a keyword in the lower-cased vendor, and Uncategorized
\* Expense when no rule has one or the vendor is absent; the vendor AWS Invoice
\* #123 gives Software & Subscriptions.
C22_FirstMatchingRuleWins ==
    pc[1] = "derived" =>
        \A t \in sess[1].tx :
            LET m == RulesMatched(OrEmpty(db_invoice[1].vendor))
            IN /\ t.glAccount =
                     IF m = {} THEN "Uncategorized Expense"
                     ELSE RuleCategory(CHOOSE k \in m : \A j \in m : k <= j)
               /\ db_invoice[1].vendor = AwsVendor =>
                     t.glAccount = "Software & Subscriptions"

C22_Witness ==
    /\ pc[1] = "derived"
    /\ Cardinality(RulesMatched(OrEmpty(db_invoice[1].vendor))) = 3
    /\ OrEmpty(db_invoice[1].vendor) # lower(OrEmpty(db_invoice[1].vendor))
    /\ \E t \in sess[1].tx : t.glAccount = "Software & Subscriptions"

\* C23: every ledger entry of the pipeline, flushed or committed, has entryType
\* Debit, the id of its record as invoiceId and the totalAmount of its record
\* as amount; none has entryType Credit.
C23_LedgerEntryIsDebitOfItsRecord ==
    /\ \A r \in Docs : \A t \in sess[r].tx :
          /\ t.entryType = "Debit"
          /\ t.invoiceId = db_invoice[r].id
          /\ t.invoiceId # 0
          /\ t.amount = db_invoice[r].totalAmount
    /\ \A t \in transactions :
          /\ t.entryType = "Debit"
          /\ t.invoiceId \in Docs
          /\ invoices[t.invoiceId].id = t.invoiceId
          /\ t.amount = invoices[t.invoiceId].totalAmount

C23_Witness ==
    \E t \in transactions :
        /\ t.entryType = "Debit"
        /\ t.amount = Num(150)
        /\ invoices[t.invoiceId].processingStatus = "Processed"
        /\ invoices[t.invoiceId].totalAmount = Num(150)

\* C24 (as claimed): the confidenceScore of a stored record, when present, lies
\* in [0, 1] (0..100 hundredths), and a score below 0.75 goes with needsReview.
C24_ConfidenceInRangeImpliesReview ==
    \A i \in Docs :
        (invoices[i].id # 0 /\ invoices[i].confidenceScore.t = "num") =>
            /\ 0 <= invoices[i].confidenceScore.v
            /\ invoices[i].confidenceScore.v <= 100
            /\ invoices[i].confidenceScore.v < 75 => invoices[i].needsReview

\* the fields of a record other than processingStatus and errorMessage
ExtractedFields(inv) ==
    <<inv.id, inv.extractedText, inv.needsReview, inv.totalAmount, inv.invoiceDate,
      inv.vendor, inv.confidenceScore>>

\* the messages the two failure handlers write
HandlerMessages == {MsgTxError, MsgUnexpected}

\* C25 (as claimed): while a record exists, no step changes its extracted
\* fields; a step that changes its processingStatus or errorMessage is a step
\* of a failure handler, sets the status Error and is the first such step of
\* the run; a record with status Error keeps it; a committed record does not
\* change.
C25_StatusRewrittenAtMostOnce ==
    [][\A r \in Docs :
          /\ (sess[r].inv.id # 0 /\ sess'[r].inv.id # 0) =>
                /\ ExtractedFields(sess'[r].inv) = ExtractedFields(sess[r].inv)
                /\ sess[r].inv.processingStatus = "Error" =>
                      sess'[r].inv.processingStatus = "Error"
                /\ sess'[r].inv # sess[r].inv =>
                      /\ pc[r] \in {"tx_error", "unexpected"}
                      /\ sess'[r].inv.processingStatus = "Error"
                      /\ sess[r].inv.errorMessage \notin HandlerMessages
          /\ invoices[r].id # 0 => invoices'[r] = invoices[r]]_vars

\* the response texts that are a body between a leading and a trailing fence
\* marker, with and without the language tag
FencedWraps == {<<FenceJson, WS, "J", WS, Fence>>, <<Fence, WS, "J", WS, Fence>>}

\* C26 (as claimed): a response that is a valid JSON body between fence markers,
\* with or without the language tag, gives the result the body alone gives.
C26_FencedResponseDecodesAsBody ==
    (/\ pc[1] = "returned"
     /\ llmResp[1].kind = "text"
     /\ llmResp[1].wrap \in FencedWraps
     /\ llmResp[1].body.jtype # "notjson") =>
        extracted[1] =
            extract_and_review_invoice_data_with_gemini(
                apiKey, ocrText[1], [llmResp[1] EXCEPT !.wrap = <<"J">>])

\* what the record should carry for the lineItems of the response
ExpectedLineItems(items) == IF items.t = "list" THEN items.v ELSE <<>>

\* C27 (as claimed): the record stored from a successful AI response, and the
\* answer of the request, carry the line items of the response in their order,
\* and the empty list when the key is absent or null.
C27_LineItemsCarried ==
    \A r \in Docs :
        (/\ pc[r] = "committed"
         /\ invoices[r].id # 0
         /\ invoices[r].processingStatus \in {"Processed", "Needs Review"}) =>
            /\ invoices[r].line_items = ExpectedLineItems(llmResp[r].body.ed.lineItems)
            /\ ResponseLineItems(response[r].body) =
                  ExpectedLineItems(llmResp[r].body.ed.lineItems)

\* the events of the three sources in the order the endpoint concatenates them
SourceEvents ==
    LET recent == get_transactions_by_date_range(today - LookbackDays, today)
    IN projected_outflows(potential_recurring_keys(recent), recent,
                          report.forecastEndDate)
       \o upcoming_payments(upcoming_payments_invoices(report.apQuery,
                                                       report.forecastEndDate))
       \o projected_inflows(outstanding_invoices(report.arQuery,
                                                 report.forecastEndDate))

\* the place of an event of the answer in SourceEvents
SourcePlace(e) == CHOOSE k \in 1..Len(SourceEvents) : SourceEvents[k] = e

TypeRank(type) ==
    CASE type = RecurringType -> 1
      [] type = PayableType -> 2
      [] OTHER -> 3

\* C28: a successful forecast lists every event of the three sources once, in
\* ascending order of the date; events of one date stand in the order recurring
\* expense, accounts payable, accounts receivable, and within a source in the
\* order of the source.
C28_EventsSortedStably ==
    (report.kind = "forecast" /\ report.code = 200) =>
        LET ev == report.projectedEvents IN
        /\ Len(ev) = Len(SourceEvents)
        /\ \A k \in 1..Len(SourceEvents) :
              Cardinality({i \in 1..Len(ev) : ev[i] = SourceEvents[k]}) =
              Cardinality({j \in 1..Len(SourceEvents) :
                              SourceEvents[j] = SourceEvents[k]})
        /\ \A i, j \in 1..Len(ev) :
              i < j =>
                  /\ ev[i].date <= ev[j].date
                  /\ ev[i].date = ev[j].date =>
                        /\ TypeRank(ev[i].type) <= TypeRank(ev[j].type)
                        /\ SourcePlace(ev[i]) <= SourcePlace(ev[j])

C28_Witness ==
    /\ report.kind = "forecast"
    /\ report.code = 200
    /\ \E i, j, k \in 1..Len(report.projectedEvents) :
          /\ i < j
          /\ j < k
          /\ report.projectedEvents[i].type = RecurringType
          /\ report.projectedEvents[j].type = PayableType
          /\ report.projectedEvents[k].type = ReceivableType
          /\ report.projectedEvents[i].date = report.projectedEvents[j].date
          /\ report.projectedEvents[j].date = report.projectedEvents[k].date
    /\ \E i \in 2..Len(report.projectedEvents) :
          /\ report.projectedEvents[i].type = RecurringType
          /\ report.projectedEvents[i - 1].type = ReceivableType
          /\ report.projectedEvents[i - 1].date < report.projectedEvents[i].date

(***************************************************************************)
(* C29: the Telegram agent and the backend agree.  A file validate_file    *)
(* accepted and process_invoice_file forwarded is not refused by the check *)
(* of the content type of the backend, and an answer of the backend with   *)
(* its success status is returned by process_invoice_file as a success.    *)
(***************************************************************************)
C29_ClientAndBackendAgree ==
    /\ (telegram.valid = "yes" /\ telegram.stage \in {"sent", "done"})
           => response[1].code # 400
    /\ (telegram.stage = "done" /\ response[1].code = 201)
           => telegram.result = "success"

(***************************************************************************)
(* C30: tag appends are never lost or duplicated.  The tag of every call   *)
(* of add_tag_to_transaction on the entry that was committed occurs in the *)
(* entry's tags exactly once, whatever the interleaving of the calls, and  *)
(* the other fields of the entry are unchanged.                            *)
(***************************************************************************)
Occurrences(tag, l) == Cardinality({i \in 1..Len(l) : l[i] = tag})

C30_TagAppendsNeverLost ==
    /\ entry.row = StoredRow
    /\ \A r \in Docs :
          tagCalls[r].stage = "committed"
              => Occurrences(tagCalls[r].tag, current_tags(entry.tags)) = 1

=============================================================================
